---- MODULE Spec2Model ----
(***************************************************************************)
(* A model of the Axon chain endpoint of the relayer                       *)
(* (crates/relayer/src/chain/axon.rs): the event-monitor lifecycle         *)
(* (subscribe / shutdown), the proof pipeline (get_proofs and              *)
(* get_proofs_ingredients), the message dispatcher (send_message and       *)
(* send_messages_and_wait_commit) and the event queries (query_txs and     *)
(* query_packet_events).                                                   *)
(*                                                                         *)
(* Rust's Option is modelled as a sequence: None is <<>>, Some(v) is <<v>>.*)
(* A call that panics (unwrap / expect / assert!) ends with the outcome    *)
(* "panic", which is neither Ok nor Err: no value reaches the caller.      *)
(***************************************************************************)
EXTENDS Integers, Sequences, FiniteSets, TLC

None == <<>>
Some(v) == <<v>>
IsSome(o) == Len(o) = 1
Unwrap(o) == o[1]

(***************************************************************************)
(* Bounds of the model.                                                    *)
(***************************************************************************)
\* subscribe / shutdown calls made on one adapter instance
MaxCalls == 4
\* largest height get_proofs is called with
MaxHeight == 3
\* largest block number the ledger reaches
MaxTip == 5
\* blocks per metadata version (validator set) of the ledger
EpochLen == 3
\* polls of the finality proof that answer "no proof yet" within one call
MaxPolls == 2
\* logs in one transaction receipt
MaxLogs == 2
\* messages in one batch of send_messages_and_wait_commit
MaxBatch == 2
\* logs of the ledger one query goes through
MaxQueryLogs == 3
\* segments of one raw denom
MaxSegments == 5

\* sequence numbers of packets, and the length of one request
MaxSeq == 3
MaxRequest == 3

\* logs of the receipt of one sendTransfer transaction
MaxTransferLogs == 3

VARIABLES
    \* ---- event monitor lifecycle (struct AxonChain, field tx_monitor_cmd)
    tx_monitor_cmd,   \* Option<TxMonitorCmd>: the id of the monitor it commands
    adapter,          \* "alive", or "consumed" once shutdown(self) took it
    monitors,         \* number of AxonEventMonitor values constructed so far
    threads,          \* ids of the monitors whose run() thread was spawned
    shutdown_sent,    \* ids of the monitors a Shutdown command was sent to, in order
    mon_log,          \* one record per subscribe / shutdown call, in call order
    \* ---- the ledger as the proof pipeline sees it
    tip,              \* number of the latest block of the ledger
    \* ---- one get_proofs call
    gp_pc,            \* where the call stands: idle, block, prev, proof, meta,
                      \* verify, storage, done
    gp_height,        \* height.revision_height() of the call
    gp_calls,         \* the ledger calls made by the call, in order
    gp_polls,         \* "no proof yet" answers received by the call
    gp_block,         \* Option: block fetched at height
    gp_state_root,    \* Option: state root of the block fetched at height - 1
    gp_proof,         \* Option: finality proof fetched at height + 1
    gp_validators,    \* Option: validator set taken from the current metadata
    gp_verify,        \* "none", "ok" or "failed": axon_tools::verify_proof
    gp_dump,          \* "none", "written" or "failed": the debug file
    gp_storage,       \* "none", "rpc_err", "empty" or "nonempty": eth_get_proof
    gp_result,        \* what the caller got: [kind, err, proofs]
    \* ---- one send_message call
    sd_pc,            \* "idle" or "done"
    sd_message,       \* message.type_url
    sd_env,           \* what decoding and the ledger answered: [decode_ok, submit, receipt]
    sd_result,        \* what the caller got: [kind, err, event, call]
    \* ---- one send_messages_and_wait_commit call
    sm_pc,            \* "idle", "running" or "done"
    sm_batch,         \* tracked_msgs.msgs: the type urls of the batch, in order
    sm_idx,           \* index of the next message the iterator yields
    sm_events,        \* the Vec collected so far
    sm_processed,     \* one record per send_message call made: [idx, url, out]
    sm_ledger,        \* contract calls sent to the ledger: [idx, method], in order
    sm_result,        \* what the caller got: [kind, err, events]
    \* ---- one query_txs or query_packet_events call
    q_pc,             \* "idle", "logs" (iterating over the fetched logs) or "done"
    q_request,        \* the request of the call
    q_seen,           \* number of ledger logs gone through so far
    q_last,           \* block number of the last ledger log gone through
    q_hits,           \* positions of the logs that meet the request, in order
    q_events,         \* the events the iterator chain yielded so far
    q_result,         \* what the caller got: [kind, err, events]
    \* ---- one parse_denom_trace call
    dn_pc,            \* "idle" or "done"
    dn_raw,           \* raw_denom, a string of characters
    dn_trace,         \* the DenomTrace returned: [path, base_denom]
    \* ---- one query_packet_commitment call
    pc_pc,            \* position: idle, done
    pc_request,       \* the request and the include_proof argument
    pc_answer,        \* what get_hashed_packet_commitment answered
    pc_result,        \* the Result returned
    \* ---- one convert_msg_to_ckb_tx call
    cv_pc,            \* position: idle, done
    cv_msg,           \* the message: type_url, whether it decodes, the entries it refers to
    cv_context,       \* the Converter's caches: which entries are present
    cv_result,        \* the Result returned, or the panic
    \* ---- one query_unreceived_packets call
    up_pc,            \* position: idle, done
    up_request,       \* request.packet_commitment_sequences
    up_ledger,        \* what the ledger holds for the channel, and which call fails
    up_result,        \* the Result returned
    \* ---- one ibc_token_transfer call of the test framework
    tt_pc,            \* position: idle, done
    tt_env,           \* what the set-up steps and the ledger answer
    tt_events,        \* what fetch_all_ibc_events_from_tx_logs returned, if called
    tt_result         \* the Result returned, or the panic

monitor_vars == <<tx_monitor_cmd, adapter, monitors, threads, shutdown_sent, mon_log>>

proofs_vars == <<tip, gp_pc, gp_height, gp_calls, gp_polls, gp_block, gp_state_root,
                 gp_proof, gp_validators, gp_verify, gp_dump, gp_storage, gp_result>>

send_vars == <<sd_pc, sd_message, sd_env, sd_result>>

batch_vars == <<sm_pc, sm_batch, sm_idx, sm_events, sm_processed, sm_ledger, sm_result>>

query_vars == <<q_pc, q_request, q_seen, q_last, q_hits, q_events, q_result>>

denom_vars == <<dn_pc, dn_raw, dn_trace>>

commitment_vars == <<pc_pc, pc_request, pc_answer, pc_result>>

convert_vars == <<cv_pc, cv_msg, cv_context, cv_result>>

unreceived_vars == <<up_pc, up_request, up_ledger, up_result>>

transfer_vars == <<tt_pc, tt_env, tt_events, tt_result>>

vars == <<monitor_vars, proofs_vars, send_vars, batch_vars, query_vars,
         denom_vars, commitment_vars, convert_vars, unreceived_vars,
         transfer_vars>>

\* what the actions of one component leave alone
not_monitor_vars ==
    <<proofs_vars, send_vars, batch_vars, query_vars, denom_vars,
      commitment_vars, convert_vars, unreceived_vars, transfer_vars>>
not_proofs_vars ==
    <<monitor_vars, send_vars, batch_vars, query_vars, denom_vars,
      commitment_vars, convert_vars, unreceived_vars, transfer_vars>>
not_send_vars ==
    <<monitor_vars, proofs_vars, batch_vars, query_vars, denom_vars,
      commitment_vars, convert_vars, unreceived_vars, transfer_vars>>
not_batch_vars ==
    <<monitor_vars, proofs_vars, send_vars, query_vars, denom_vars,
      commitment_vars, convert_vars, unreceived_vars, transfer_vars>>
not_query_vars ==
    <<monitor_vars, proofs_vars, send_vars, batch_vars, denom_vars,
      commitment_vars, convert_vars, unreceived_vars, transfer_vars>>
not_commitment_vars ==
    <<monitor_vars, proofs_vars, send_vars, batch_vars, query_vars,
      denom_vars, convert_vars, unreceived_vars, transfer_vars>>
not_denom_vars ==
    <<monitor_vars, proofs_vars, send_vars, batch_vars, query_vars,
      commitment_vars, convert_vars, unreceived_vars, transfer_vars>>
not_unreceived_vars ==
    <<monitor_vars, proofs_vars, send_vars, batch_vars, query_vars,
      denom_vars, commitment_vars, convert_vars, transfer_vars>>
not_convert_vars ==
    <<monitor_vars, proofs_vars, send_vars, batch_vars, query_vars,
      denom_vars, commitment_vars, unreceived_vars, transfer_vars>>
not_transfer_vars ==
    <<monitor_vars, proofs_vars, send_vars, batch_vars, query_vars,
      denom_vars, commitment_vars, convert_vars, unreceived_vars>>

(***************************************************************************)
(* The message dispatcher: send_message.                                   *)
(***************************************************************************)
\* the type urls send_message dispatches to a contract call
SupportedUrls ==
    {"create_client",
     "conn_open_init", "conn_open_try", "conn_open_ack", "conn_open_confirm",
     "chan_open_init", "chan_open_try", "chan_open_ack", "chan_open_confirm",
     "chan_close_init", "chan_close_confirm",
     "recv_packet", "acknowledgement", "timeout"}

\* every type url a message may carry: the supported ones, update_client and
\* one url no table knows
TypeUrls == SupportedUrls \cup {"update_client", "timeout_on_close"}

\* A dispatch without the `url =>` arm: whatever the type url, the message is
\* sent as recv_packet.
contract_method_default(url) == Some("recv_packet")

\* first match of send_message: the contract method a type url is sent with;
\* timeout is sent as recv_packet; None is the `url =>` arm
contract_method(url) ==
    CASE url = "create_client" -> Some("create_client")
      [] url = "conn_open_init" -> Some("connection_open_init")
      [] url = "conn_open_try" -> Some("connection_open_try")
      [] url = "conn_open_ack" -> Some("connection_open_ack")
      [] url = "conn_open_confirm" -> Some("connection_open_confirm")
      [] url = "chan_open_init" -> Some("channel_open_init")
      [] url = "chan_open_try" -> Some("channel_open_try")
      [] url = "chan_open_ack" -> Some("channel_open_ack")
      [] url = "chan_open_confirm" -> Some("channel_open_confirm")
      [] url = "chan_close_init" -> Some("channel_close_init")
      [] url = "chan_close_confirm" -> Some("channel_close_confirm")
      [] url = "recv_packet" -> Some("recv_packet")
      [] url = "acknowledgement" -> Some("acknowledge_packet")
      [] url = "timeout" -> Some("recv_packet")
      [] OTHER -> None

\* second match of send_message: the event variant looked for in the logs of
\* the receipt; None is the `url =>` arm
expected_filter(url) ==
    CASE url = "create_client" -> Some("CreateClientFilter")
      [] url = "update_client" -> Some("UpdateClientFilter")
      [] url = "conn_open_init" -> Some("OpenInitConnectionFilter")
      [] url = "conn_open_try" -> Some("OpenTryConnectionFilter")
      [] url = "conn_open_ack" -> Some("OpenAckConnectionFilter")
      [] url = "conn_open_confirm" -> Some("OpenConfirmConnectionFilter")
      [] url = "chan_open_init" -> Some("OpenInitChannelFilter")
      [] url = "chan_open_try" -> Some("OpenTryChannelFilter")
      [] url = "chan_open_ack" -> Some("OpenAckChannelFilter")
      [] url = "chan_open_confirm" -> Some("OpenConfirmChannelFilter")
      [] url = "chan_close_init" -> Some("CloseInitChannelFilter")
      [] url = "chan_close_confirm" -> Some("CloseConfirmChannelFilter")
      [] url = "recv_packet" -> Some("ReceivePacketFilter")
      [] url = "timeout" -> Some("ReceivePacketFilter")
      [] url = "acknowledgement" -> Some("AcknowledgePacketFilter")
      [] OTHER -> None

\* the variants of OwnableIBCHandlerEvents the endpoint names
Variants ==
    {"CreateClientFilter", "UpdateClientFilter",
     "OpenInitConnectionFilter", "OpenTryConnectionFilter",
     "OpenAckConnectionFilter", "OpenConfirmConnectionFilter",
     "OpenInitChannelFilter", "OpenTryChannelFilter",
     "OpenAckChannelFilter", "OpenConfirmChannelFilter",
     "CloseInitChannelFilter", "CloseConfirmChannelFilter",
     "SendPacketFilter", "ReceivePacketFilter",
     "WriteAcknowledgementFilter", "AcknowledgePacketFilter"}

\* config.contract_address, and an address of another contract
Addresses == {"contract_address", "other_address"}

\* a raw log: its emitter and what its topics and data decode to
Logs == [address : Addresses, variant : Variants \cup {"undecodable"}]

\* the block numbers and transaction hashes receipts are drawn from
BlockNumbers == {1, 2}
TxHashes == {1, 2}

SeqsUpTo(S, n) == UNION {[1..k -> S] : k \in 0..n}

\* a transaction receipt with at most n logs
Receipts(n) ==
    [logs : SeqsUpTo(Logs, n),
     block_number : {None} \cup {Some(b) : b \in BlockNumbers},
     transaction_hash : TxHashes]

\* what the payload decoding and the ledger answer to one send_message call
Envs(n) ==
    {[decode_ok |-> FALSE, submit |-> "none", receipt |-> None]}
    \cup {[decode_ok |-> TRUE, submit |-> x, receipt |-> None] :
            x \in {"send_err", "await_err", "no_receipt"}}
    \cup {[decode_ok |-> TRUE, submit |-> "receipt", receipt |-> Some(r)] :
            r \in Receipts(n)}

\* OwnableIBCHandlerEvents::decode_log(&log): Ok(variant) or Err
decode_log(log) == IF log.variant = "undecodable" THEN None ELSE Some(log.variant)

\* the logs of the receipt that matches!(event, Ok(<filter>(_))) accepts
Matching(filter, logs) ==
    {i \in 1..Len(logs) : decode_log(logs[i]) = Some(filter)}

Min(S) == CHOOSE x \in S : \A y \in S : x <= y

\* A lookup that keeps the last matching log instead of the first.
find_event_last(url, logs) ==
    IF url = "update_client"
    THEN Some([variant |-> "UpdateClientFilter", log |-> 0])
    ELSE LET hits == Matching(Unwrap(expected_filter(url)), logs)
             last == CHOOSE x \in hits : \A y \in hits : x >= y
         IN  IF hits = {} THEN None
             ELSE Some([variant |-> logs[last].variant, log |-> last])

\* events.find(|event| matches!(event, Ok(<filter>(_)))): the first log, in
\* receipt order, that decodes to the expected variant; update_client takes
\* no log and builds its event from the message (log 0).
find_event(url, logs) ==
    IF url = "update_client"
    THEN Some([variant |-> "UpdateClientFilter", log |-> 0])
    ELSE LET hits == Matching(Unwrap(expected_filter(url)), logs)
         IN  IF hits = {} THEN None
             ELSE Some([variant |-> logs[Min(hits)].variant, log |-> Min(hits)])

SendErr(e, call) == [kind |-> "Err", err |-> e, event |-> None, call |-> call]

\* An event stamped with the lowest block number instead of the receipt's.
event_with_height_lowest(found, receipt) ==
    [event |-> found.variant, log |-> found.log,
     height |-> Min(BlockNumbers),
     tx_hash |-> receipt.transaction_hash]

\* Ok(IbcEventWithHeight { event, height, tx_hash }): height is
\* Height::from_noncosmos_height(tx_receipt.block_number), tx_hash is
\* tx_receipt.transaction_hash.0
event_with_height(found, receipt) ==
    [event |-> found.variant, log |-> found.log,
     height |-> Unwrap(receipt.block_number),
     tx_hash |-> receipt.transaction_hash]

\* fn send_message(&mut self, message: Any) -> Result<IbcEventWithHeight, Error>
send_message(url, env) ==
    LET method == contract_method(url)
    IN  IF ~IsSome(method)
        THEN SendErr("non-support message type url", None)
        ELSE IF ~env.decode_ok
        THEN SendErr("decode", None)
        ELSE IF env.submit = "send_err"
        THEN SendErr("send", method)
        ELSE IF env.submit = "await_err"
        THEN SendErr("pending transaction", method)
        ELSE IF env.submit = "no_receipt"
        THEN SendErr("fail to send tx", method)
        ELSE IF ~IsSome(expected_filter(url))
        THEN SendErr("non-support message type url", method)
        ELSE LET receipt == Unwrap(env.receipt)
                 found == find_event(url, receipt.logs)
             IN  IF ~IsSome(found)
                 THEN SendErr("not find right event", method)
                 ELSE IF ~IsSome(receipt.block_number)
                 THEN SendErr("still pending", method)
                 ELSE [kind |-> "Ok", err |-> "",
                       event |-> Some(event_with_height(Unwrap(found), receipt)),
                       call |-> method]

NoSend == [kind |-> "none", err |-> "", event |-> None, call |-> None]
NoEnv == [decode_ok |-> FALSE, submit |-> "none", receipt |-> None]

SendIdle ==
    /\ sd_pc = "idle"
    /\ sd_message = ""
    /\ sd_env = NoEnv
    /\ sd_result = NoSend

\* The lookup of send_message compares each decoded log with the one variant
\* expected for the type url, so the logs of a receipt are drawn from: that
\* variant, one variant no type url expects, and a log that does not decode.
LogVariantsFor(url) ==
    (IF IsSome(expected_filter(url)) THEN {Unwrap(expected_filter(url))} ELSE {})
    \cup {"SendPacketFilter", "undecodable"}

EnvsFor(url, n) ==
    {env \in Envs(n) :
        IsSome(env.receipt) =>
            \A i \in 1..Len(Unwrap(env.receipt).logs) :
                Unwrap(env.receipt).logs[i].variant \in LogVariantsFor(url)}

\* one send_message call, from its entry to its return
SendMessage ==
    /\ sd_pc = "idle"
    /\ \E url \in TypeUrls : \E env \in EnvsFor(url, MaxLogs) :
        /\ sd_message' = url
        /\ sd_env' = env
        /\ sd_result' = send_message(url, env)
    /\ sd_pc' = "done"
    /\ UNCHANGED not_send_vars

\* the caller took the result; the adapter is ready for the next call
SendReturn ==
    /\ sd_pc = "done"
    /\ sd_pc' = "idle"
    /\ sd_message' = ""
    /\ sd_env' = NoEnv
    /\ sd_result' = NoSend
    /\ UNCHANGED not_send_vars

(***************************************************************************)
(* send_messages_and_wait_commit:                                          *)
(*   msgs.into_iter().map(|msg| self.send_message(msg))                    *)
(*       .collect::<Result<Vec<_>, _>>()                                   *)
(***************************************************************************)
\* the type urls batches are drawn from: two plain ones, timeout (sent as
\* recv_packet), update_client (expected event but no contract call) and an
\* unknown one
BatchUrls == {"create_client", "recv_packet", "timeout", "update_client",
              "timeout_on_close"}

NoBatchResult == [kind |-> "none", err |-> "", events |-> <<>>]

BatchIdle ==
    /\ sm_pc = "idle"
    /\ sm_batch = <<>>
    /\ sm_idx = 1
    /\ sm_events = <<>>
    /\ sm_processed = <<>>
    /\ sm_ledger = <<>>
    /\ sm_result = NoBatchResult

\* A collect that skips a failed message and goes on with the next one.
collect_step_skips_errors(acc, out) ==
    IF out.kind = "Ok"
    THEN [continue |-> TRUE, acc |-> Append(acc, Unwrap(out.event))]
    ELSE [continue |-> TRUE, acc |-> acc]

\* A collect that puts each new event in front of the earlier ones.
collect_step_prepends(acc, out) ==
    IF out.kind = "Ok"
    THEN [continue |-> TRUE, acc |-> <<Unwrap(out.event)>> \o acc]
    ELSE [continue |-> FALSE, acc |-> <<>>]

\* collect::<Result<Vec<_>, _>>() on one item of the iterator: an Ok item is
\* pushed at the end of the Vec, the first Err item stops the iteration and
\* the Vec is dropped.
collect_step(acc, out) ==
    IF out.kind = "Ok"
    THEN [continue |-> TRUE, acc |-> Append(acc, Unwrap(out.event))]
    ELSE [continue |-> FALSE, acc |-> <<>>]

\* send_messages_and_wait_commit is entered with a batch
BatchCall ==
    /\ sm_pc = "idle"
    /\ \E b \in SeqsUpTo(BatchUrls, MaxBatch) : sm_batch' = b
    /\ sm_pc' = "running"
    /\ UNCHANGED <<sm_idx, sm_events, sm_processed, sm_ledger, sm_result>>
    /\ UNCHANGED not_batch_vars

\* the iterator yields the next message: send_message runs on it to its
\* return, and collect takes its result
BatchStep ==
    /\ sm_pc = "running"
    /\ sm_idx <= Len(sm_batch)
    /\ \E env \in Envs(1) :
        LET out == send_message(sm_batch[sm_idx], env)
            c == collect_step(sm_events, out)
        IN  /\ sm_processed' = Append(sm_processed,
                   [idx |-> sm_idx, url |-> sm_batch[sm_idx], out |-> out])
            /\ sm_ledger' = IF IsSome(out.call)
                            THEN Append(sm_ledger,
                                     [idx |-> sm_idx, method |-> Unwrap(out.call)])
                            ELSE sm_ledger
            /\ sm_events' = c.acc
            /\ IF c.continue
               THEN /\ sm_idx' = sm_idx + 1
                    /\ UNCHANGED <<sm_pc, sm_result>>
               ELSE /\ sm_pc' = "done"
                    /\ sm_result' = [kind |-> "Err", err |-> out.err, events |-> <<>>]
                    /\ UNCHANGED sm_idx
    /\ UNCHANGED sm_batch
    /\ UNCHANGED not_batch_vars

\* the iterator is exhausted: Ok(events)
BatchFinish ==
    /\ sm_pc = "running"
    /\ sm_idx > Len(sm_batch)
    /\ sm_pc' = "done"
    /\ sm_result' = [kind |-> "Ok", err |-> "", events |-> sm_events]
    /\ UNCHANGED <<sm_batch, sm_idx, sm_events, sm_processed, sm_ledger>>
    /\ UNCHANGED not_batch_vars

\* the caller took the result; the adapter is ready for the next batch
BatchReturn ==
    /\ sm_pc = "done"
    /\ sm_pc' = "idle"
    /\ sm_batch' = <<>>
    /\ sm_idx' = 1
    /\ sm_events' = <<>>
    /\ sm_processed' = <<>>
    /\ sm_ledger' = <<>>
    /\ sm_result' = NoBatchResult
    /\ UNCHANGED not_batch_vars

(***************************************************************************)
(* Event monitor lifecycle.                                                *)
(***************************************************************************)
\* bootstrap: tx_monitor_cmd: None, no monitor constructed, no thread spawned.
MonitorIdle ==
    /\ tx_monitor_cmd = None
    /\ adapter = "alive"
    /\ monitors = 0
    /\ threads = {}
    /\ shutdown_sent = <<>>
    /\ mon_log = <<>>

\* init_event_monitor: AxonEventMonitor::new(..) may fail (map_err .. ?), and
\* only after it succeeded is the thread running event_monitor.run() spawned;
\* the command handle monitor_tx of the new monitor is returned.
init_event_monitor(new_ok) ==
    IF new_ok
    THEN [ok |-> TRUE, handle |-> monitors + 1, spawned |-> {monitors + 1}]
    ELSE [ok |-> FALSE, handle |-> 0, spawned |-> {}]

\* A subscribe that forgets the handle it got from init_event_monitor.
subscribe_store_forgets(cur, created) == cur

\* subscribe, None arm: self.tx_monitor_cmd = Some(tx_monitor_cmd).
subscribe_store(cur, created) == Some(created)

\* fn subscribe(&mut self): new_ok is the outcome of AxonEventMonitor::new,
\* sub_ok the outcome of tx_monitor_cmd.subscribe() on the command channel.
subscribe ==
    /\ adapter = "alive"
    /\ Len(mon_log) < MaxCalls
    /\ \E new_ok \in BOOLEAN, sub_ok \in BOOLEAN :
        LET need_init == ~IsSome(tx_monitor_cmd)
            r == init_event_monitor(new_ok)
        IN  IF need_init /\ ~r.ok
            THEN \* init_event_monitor()? returned the error
                 /\ mon_log' = Append(mon_log,
                        [op |-> "subscribe", result |-> "Err", started |-> None,
                         monitor |-> None])
                 /\ UNCHANGED <<tx_monitor_cmd, monitors, threads>>
            ELSE LET stored == IF need_init
                               THEN subscribe_store(tx_monitor_cmd, r.handle)
                               ELSE tx_monitor_cmd
                     \* the handle the subscription is asked from: the stored
                     \* one (self.tx_monitor_cmd.as_ref().unwrap())
                     used == IF need_init THEN Some(r.handle) ELSE tx_monitor_cmd
                 IN  /\ tx_monitor_cmd' = stored
                     /\ monitors' = IF need_init THEN monitors + 1 ELSE monitors
                     /\ threads' = IF need_init THEN threads \cup r.spawned ELSE threads
                     /\ mon_log' = Append(mon_log,
                            [op |-> "subscribe",
                             result |-> IF sub_ok THEN "Ok" ELSE "Err",
                             started |-> IF need_init THEN Some(r.handle) ELSE None,
                             monitor |-> IF sub_ok THEN used ELSE None])
    /\ UNCHANGED <<adapter, shutdown_sent>>
    /\ UNCHANGED not_monitor_vars

\* A shutdown that drops the handle without sending the command.
shutdown_targets_none(cmd) == <<>>

\* shutdown: if let Some(monitor_tx) = self.tx_monitor_cmd { monitor_tx.shutdown() }
\* the monitors the Shutdown command is sent to.
shutdown_targets(cmd) == IF IsSome(cmd) THEN <<Unwrap(cmd)>> ELSE <<>>

\* fn shutdown(self): consumes the adapter; sends Shutdown to the stored
\* monitor, if any; send_ok is the outcome of monitor_tx.shutdown().
shutdown ==
    /\ adapter = "alive"
    /\ adapter' = "consumed"
    /\ IF IsSome(tx_monitor_cmd)
       THEN \E send_ok \in BOOLEAN :
            /\ shutdown_sent' = shutdown_sent \o shutdown_targets(tx_monitor_cmd)
            /\ mon_log' = Append(mon_log,
                   [op |-> "shutdown", result |-> IF send_ok THEN "Ok" ELSE "Err",
                    started |-> None, monitor |-> tx_monitor_cmd])
       ELSE /\ shutdown_sent' = shutdown_sent
            /\ mon_log' = Append(mon_log,
                   [op |-> "shutdown", result |-> "Ok", started |-> None,
                    monitor |-> None])
    /\ UNCHANGED <<tx_monitor_cmd, monitors, threads>>
    /\ UNCHANGED not_monitor_vars

(***************************************************************************)
(* The ledger read interface used by the proof pipeline.  Block n exists   *)
(* once the ledger reached it; the finality proof of block n is committed  *)
(* in block n + 1; the validator set is the one of the metadata version    *)
(* (epoch) of a block.                                                     *)
(***************************************************************************)
Epoch(n) == n \div EpochLen

\* the validator set in force during an epoch: the ledger changes it at some
\* epoch boundaries and keeps it at others (here: changed when entering an
\* odd epoch)
ValidatorSet(e) == (e + 1) \div 2

LedgerBlock(n) == [number |-> n, state_root |-> [of |-> n]]

\* rpc get_block_by_id(n): None for a block the ledger has not reached
get_block_by_id(n) == IF n <= tip THEN Some(LedgerBlock(n)) ELSE None

\* rpc get_proof_by_id(n): the proof carried by block n, which finalizes
\* block n - 1 and is signed by that block's validator set; a node may
\* answer with a proof that does not verify (forged)
get_proof_by_id(n, forged) ==
    IF n <= tip
    THEN Some([number |-> n - 1, signers |-> ValidatorSet(Epoch(n - 1)), forged |-> forged])
    ELSE None

\* rpc get_current_metadata().verifier_list: the validator set now in force
get_current_metadata == ValidatorSet(Epoch(tip))

\* axon_tools::verify_proof(block, previous_state_root, validators, proof):
\* the proof is a quorum signature of the validators over the block at hand,
\* whose hash covers the previous state root.
verify_proof(block, previous_state_root, validators, proof) ==
    /\ ~proof.forged
    /\ proof.number = block.number
    /\ proof.signers = validators
    /\ previous_state_root = [of |-> block.number - 1]

NoResult == [kind |-> "none", err |-> "", proofs |-> None]
Err(e) == [kind |-> "Err", err |-> e, proofs |-> None]
Panic(e) == [kind |-> "panic", err |-> e, proofs |-> None]

ProofsIdle ==
    /\ tip = 1
    /\ gp_pc = "idle"
    /\ gp_height = 0
    /\ gp_calls = <<>>
    /\ gp_polls = 0
    /\ gp_block = None
    /\ gp_state_root = None
    /\ gp_proof = None
    /\ gp_validators = None
    /\ gp_verify = "none"
    /\ gp_dump = "none"
    /\ gp_storage = "none"
    /\ gp_result = NoResult

\* block_number.checked_sub(1): None when the subtraction underflows
checked_sub_1(n) == IF n >= 1 THEN Some(n - 1) ELSE None

\* get_proofs entered with a height: get_proofs_ingredients first computes
\* previous_number with .expect("bad block_number"), before any await.
GetProofsCall ==
    /\ gp_pc = "idle"
    /\ \E h \in 0..MaxHeight :
        /\ gp_height' = h
        /\ IF IsSome(checked_sub_1(h))
           THEN gp_pc' = "block" /\ gp_result' = NoResult
           ELSE gp_pc' = "done" /\ gp_result' = Panic("bad block_number")
    /\ UNCHANGED <<tip, gp_calls, gp_polls, gp_block, gp_state_root, gp_proof,
                   gp_validators, gp_verify, gp_dump, gp_storage>>
    /\ UNCHANGED not_proofs_vars

\* rpc_client.get_block_by_id(block_number).await? .ok_or_else(..)?
FetchBlock ==
    /\ gp_pc = "block"
    /\ gp_calls' = Append(gp_calls, [call |-> "get_block_by_id", id |-> gp_height])
    /\ \E rpc_ok \in BOOLEAN :
        LET b == get_block_by_id(gp_height)
        IN  IF ~rpc_ok
            THEN gp_pc' = "done" /\ gp_result' = Err("rpc") /\ gp_block' = gp_block
            ELSE IF ~IsSome(b)
            THEN gp_pc' = "done" /\ gp_result' = Err("failed to get block")
                 /\ gp_block' = gp_block
            ELSE gp_pc' = "prev" /\ gp_result' = gp_result /\ gp_block' = b
    /\ UNCHANGED <<tip, gp_height, gp_polls, gp_state_root, gp_proof,
                   gp_validators, gp_verify, gp_dump, gp_storage>>
    /\ UNCHANGED not_proofs_vars

\* rpc_client.get_block_by_id(previous_number).await? .ok_or_else(..)?
\*     .header.state_root
FetchPreviousBlock ==
    /\ gp_pc = "prev"
    /\ gp_calls' = Append(gp_calls,
           [call |-> "get_block_by_id", id |-> Unwrap(checked_sub_1(gp_height))])
    /\ \E rpc_ok \in BOOLEAN :
        LET b == get_block_by_id(Unwrap(checked_sub_1(gp_height)))
        IN  IF ~rpc_ok
            THEN gp_pc' = "done" /\ gp_result' = Err("rpc")
                 /\ gp_state_root' = gp_state_root
            ELSE IF ~IsSome(b)
            THEN gp_pc' = "done" /\ gp_result' = Err("failed to get block")
                 /\ gp_state_root' = gp_state_root
            ELSE gp_pc' = "proof" /\ gp_result' = gp_result
                 /\ gp_state_root' = Some(Unwrap(b).state_root)
    /\ UNCHANGED <<tip, gp_height, gp_polls, gp_block, gp_proof,
                   gp_validators, gp_verify, gp_dump, gp_storage>>
    /\ UNCHANGED not_proofs_vars

\* tokio::time::sleep(Duration::from_secs(1)): the pause between two polls
PollIntervalSecs == 1

\* A wait that gives up on the first "no proof yet" answer.
poll_step_gives_up(rpc_ok, p) ==
    IF ~rpc_ok THEN [pc |-> "done", result |-> Err("rpc"), proof |-> gp_proof, sleep |-> FALSE]
    ELSE IF ~IsSome(p)
    THEN [pc |-> "done", result |-> Err("no proof yet"), proof |-> gp_proof, sleep |-> FALSE]
    ELSE [pc |-> "meta", result |-> gp_result, proof |-> p, sleep |-> FALSE]

\* one turn of
\* loop { match rpc_client.get_proof_by_id(next_number).await? {
\*     None => sleep(1s), Some(p) => break p } }
\* a failed fetch leaves the function through `?`, None sleeps and goes round
\* again, Some(p) breaks out of the loop with p.
poll_step(rpc_ok, p) ==
    IF ~rpc_ok THEN [pc |-> "done", result |-> Err("rpc"), proof |-> gp_proof, sleep |-> FALSE]
    ELSE IF ~IsSome(p)
    THEN [pc |-> "proof", result |-> gp_result, proof |-> gp_proof, sleep |-> TRUE]
    ELSE [pc |-> "meta", result |-> gp_result, proof |-> p, sleep |-> FALSE]

\* the number of "no proof yet" answers the model follows is capped by MaxPolls
PollProof ==
    /\ gp_pc = "proof"
    /\ \E rpc_ok \in BOOLEAN, forged \in BOOLEAN :
        LET s == poll_step(rpc_ok, get_proof_by_id(gp_height + 1, forged))
            fetch == [call |-> "get_proof_by_id", id |-> gp_height + 1]
        IN  /\ s.sleep => gp_polls < MaxPolls
            /\ gp_pc' = s.pc
            /\ gp_result' = s.result
            /\ gp_proof' = s.proof
            /\ gp_polls' = IF s.sleep THEN gp_polls + 1 ELSE gp_polls
            /\ gp_calls' = IF s.sleep
                           THEN gp_calls \o <<fetch, [call |-> "sleep", id |-> PollIntervalSecs]>>
                           ELSE Append(gp_calls, fetch)
    /\ UNCHANGED <<tip, gp_height, gp_block, gp_state_root,
                   gp_validators, gp_verify, gp_dump, gp_storage>>
    /\ UNCHANGED not_proofs_vars

\* rpc_client.get_current_metadata().await? .verifier_list
FetchMetadata ==
    /\ gp_pc = "meta"
    /\ gp_calls' = Append(gp_calls, [call |-> "get_current_metadata", id |-> tip])
    /\ \E rpc_ok \in BOOLEAN :
        IF ~rpc_ok
        THEN gp_pc' = "done" /\ gp_result' = Err("rpc")
             /\ gp_validators' = gp_validators
        ELSE gp_pc' = "verify" /\ gp_result' = gp_result
             /\ gp_validators' = Some(get_current_metadata)
    /\ UNCHANGED <<tip, gp_height, gp_polls, gp_block, gp_state_root, gp_proof,
                   gp_verify, gp_dump, gp_storage>>
    /\ UNCHANGED not_proofs_vars

\* A get_proofs that goes on to the storage proof whatever the verification said.
verify_step_unchecked(verified, dump_ok) ==
    [pc |-> "storage", result |-> NoResult, dump |-> "none"]

\* axon_tools::verify_proof(..).map_err(|err| { std::fs::write(..).unwrap();
\*     Error::rpc_response(..) })?
\* on success the call goes on; on failure the debug file is written inside
\* map_err, the write is unwrapped, and only then the error is built.
verify_step(verified, dump_ok) ==
    IF verified
    THEN [pc |-> "storage", result |-> NoResult, dump |-> "none"]
    ELSE IF dump_ok
    THEN [pc |-> "done", result |-> Err("unverified axon block"), dump |-> "written"]
    ELSE [pc |-> "done", result |-> Panic("fs::write unwrap"), dump |-> "failed"]

VerifyBlock ==
    /\ gp_pc = "verify"
    /\ \E dump_ok \in BOOLEAN :
        LET verified == verify_proof(Unwrap(gp_block), Unwrap(gp_state_root),
                                     Unwrap(gp_validators), Unwrap(gp_proof))
            s == verify_step(verified, dump_ok)
        IN  /\ gp_verify' = IF verified THEN "ok" ELSE "failed"
            /\ gp_pc' = s.pc
            /\ gp_result' = s.result
            /\ gp_dump' = s.dump
    /\ UNCHANGED <<tip, gp_height, gp_calls, gp_polls, gp_block, gp_state_root,
                   gp_proof, gp_validators, gp_storage>>
    /\ UNCHANGED not_proofs_vars

\* rt.block_on(rpc_client.eth_get_proof(..)).unwrap();
\* assert!(!commitment_proof.storage_proof.is_empty());
\* then the AxonCommitmentProof is assembled and Ok(proofs) returned.
storage_step(answer) ==
    CASE answer = "rpc_err" -> Panic("eth_get_proof unwrap")
      [] answer = "empty" -> Panic("assert storage_proof not empty")
      [] OTHER -> [kind |-> "Ok", err |-> "",
                   proofs |-> Some([block |-> Unwrap(gp_block),
                                    block_proof |-> Unwrap(gp_proof),
                                    previous_state_root |-> Unwrap(gp_state_root),
                                    height |-> gp_height])]

FetchStorageProof ==
    /\ gp_pc = "storage"
    /\ gp_calls' = Append(gp_calls, [call |-> "eth_get_proof", id |-> gp_height])
    /\ \E answer \in {"rpc_err", "empty", "nonempty"} :
        /\ gp_storage' = answer
        /\ gp_result' = storage_step(answer)
    /\ gp_pc' = "done"
    /\ UNCHANGED <<tip, gp_height, gp_polls, gp_block, gp_state_root, gp_proof,
                   gp_validators, gp_verify, gp_dump>>
    /\ UNCHANGED not_proofs_vars

\* the call is over; the adapter is ready for the next get_proofs call
GetProofsReturn ==
    /\ gp_pc = "done"
    /\ gp_pc' = "idle"
    /\ gp_height' = 0
    /\ gp_calls' = <<>>
    /\ gp_polls' = 0
    /\ gp_block' = None
    /\ gp_state_root' = None
    /\ gp_proof' = None
    /\ gp_validators' = None
    /\ gp_verify' = "none"
    /\ gp_dump' = "none"
    /\ gp_storage' = "none"
    /\ gp_result' = NoResult
    /\ UNCHANGED tip
    /\ UNCHANGED not_proofs_vars

\* the ledger produces its next block
LedgerAdvance ==
    /\ tip < MaxTip
    /\ tip' = tip + 1
    /\ UNCHANGED <<gp_pc, gp_height, gp_calls, gp_polls, gp_block, gp_state_root,
                   gp_proof, gp_validators, gp_verify, gp_dump, gp_storage, gp_result>>
    /\ UNCHANGED not_proofs_vars

(***************************************************************************)
(* The event queries: query_txs (client-event and transaction-hash forms)  *)
(* and query_packet_events.  Each call fetches logs from the ledger and    *)
(* runs them, one after the other and in the ledger's order, through a     *)
(* lazy iterator chain; the model goes through the logs one at a time.     *)
(***************************************************************************)
\* the client ids and the packets that requests and logs are drawn from:
\* the packet a request names, the same packet with the next sequence, and
\* one packet differing from it in each port or channel
ClientIds == {"07-axon-0", "07-axon-1"}

BasePacket ==
    [sequence |-> 1,
     source_port |-> "transfer", source_channel |-> "channel-0",
     destination_port |-> "transfer", destination_channel |-> "channel-1"]

Packets ==
    {BasePacket,
     [BasePacket EXCEPT !.sequence = 2],
     [BasePacket EXCEPT !.source_port = "other"],
     [BasePacket EXCEPT !.source_channel = "channel-9"],
     [BasePacket EXCEPT !.destination_port = "other"],
     [BasePacket EXCEPT !.destination_channel = "channel-9"]}

NoPacket ==
    [sequence |-> 0, source_port |-> "", source_channel |-> "",
     destination_port |-> "", destination_channel |-> ""]

\* the ledger of the model holds one transaction per block
TxOfBlock(b) == b

\* a mined log of the ledger: emitter, position, what it decodes to (variant
\* and the fields the queries read), and whether its fields parse into a
\* canonical event
QueryLog(address, block, variant, client_id, packet, valid) ==
    [address |-> address, block_number |-> block,
     transaction_hash |-> TxOfBlock(block),
     variant |-> variant, client_id |-> client_id, packet |-> packet,
     valid |-> valid]

QueryLogs ==
    {QueryLog(a, b, v, c, NoPacket, ok) :
        a \in Addresses, b \in BlockNumbers,
        v \in {"CreateClientFilter", "UpdateClientFilter"},
        c \in ClientIds, ok \in BOOLEAN}
    \cup {QueryLog(a, b, v, "", p, ok) :
        a \in Addresses, b \in BlockNumbers,
        v \in {"SendPacketFilter", "WriteAcknowledgementFilter"},
        p \in Packets, ok \in BOOLEAN}
    \cup {QueryLog(a, b, v, "", NoPacket, TRUE) :
        a \in Addresses, b \in BlockNumbers,
        v \in {"OwnershipTransferredFilter", "undecodable"}}

\* ethers Filter: address plus an inclusive block range (at_block_hash pins
\* the range to one block)
Filter(from_block, to_block) ==
    [address |-> "contract_address", from_block |-> from_block, to_block |-> to_block]

\* eth_getLogs: the node returns the logs that meet the filter
get_logs(filter, log) ==
    /\ log.address = filter.address
    /\ IsSome(filter.from_block) => log.block_number >= Unwrap(filter.from_block)
    /\ IsSome(filter.to_block) => log.block_number <= Unwrap(filter.to_block)

\* utils::ibc_event_from_ibc_handler_event(height, tx_hash, event)
\*     -> Result<Option<IbcEventWithHeight>, Error>
\* a variant with a canonical event kind gives that event, or an error when
\* its fields do not parse; a variant without one gives Ok(None).
ibc_event_from_ibc_handler_event(height, tx_hash, log) ==
    IF log.variant \notin Variants THEN [kind |-> "Ok", event |-> None]
    ELSE IF ~log.valid THEN [kind |-> "Err", event |-> None]
    ELSE [kind |-> "Ok",
          event |-> Some([event |-> log.variant, height |-> height, tx_hash |-> tx_hash,
                          client_id |-> log.client_id, packet |-> log.packet])]

\* what a filter_map closure makes of one log: it panics, yields nothing,
\* or yields an item (an event, or for the fallible chains an error)
Aborts == [kind |-> "panic", event |-> None]
Skips == [kind |-> "skip", event |-> None]

\* Result<Option<T>, E>::transpose() inside filter_map:
\* Ok(None) -> None, Ok(Some(e)) -> Some(Ok(e)), Err(e) -> Some(Err(e))
transpose(r) ==
    IF r.kind = "Err" THEN [kind |-> "err", event |-> None]
    ELSE IF IsSome(r.event) THEN [kind |-> "ok", event |-> r.event]
    ELSE Skips

\* Result<Option<T>, E>::ok().unwrap_or(None) inside filter_map:
\* Ok(Some(e)) -> Some(e), Ok(None) -> None, Err(_) -> None
ok_unwrap_or_none(r) ==
    IF r.kind = "Ok" /\ IsSome(r.event) THEN [kind |-> "ok", event |-> r.event]
    ELSE Skips

\* the requests calls are drawn from.  A consensus height or a transaction
\* hash beyond BlockNumbers / TxHashes names a block or a transaction the
\* ledger does not hold.
ClientRequests ==
    [op : {"client"}, client_id : ClientIds, consensus_height : BlockNumbers \cup {3}]

TransactionRequests == [op : {"transaction"}, tx_hash : TxHashes \cup {3}]

\* Qualified<QueryHeight>: height None is QueryHeight::Latest
QueryHeights ==
    [qualifier : {"SmallerEqual", "Equal"}, height : {None, Some(1)}]

PacketRequests ==
    {[op |-> "packet_events", event_id |-> k, sequences |-> s, height |-> h,
      source_port_id |-> BasePacket.source_port,
      source_channel_id |-> BasePacket.source_channel,
      destination_port_id |-> BasePacket.destination_port,
      destination_channel_id |-> BasePacket.destination_channel] :
        k \in {"CreateClient", "UpdateClient", "SendPacket", "WriteAck"},
        s \in {{}, {1}, {1, 2}},
        h \in QueryHeights}

NoRequest == [op |-> "none"]

\* the filter of query_packet_events, from the height of the request
packet_events_filter(height) ==
    IF ~IsSome(height.height) THEN Filter(None, None)
    ELSE IF height.qualifier = "SmallerEqual" THEN Filter(None, height.height)
    ELSE Filter(height.height, height.height)

\* A packet filter that does not look at the sequence set.
packet_filter_any_sequence(request, packet) ==
    /\ packet.destination_channel = request.destination_channel_id
    /\ packet.source_channel = request.source_channel_id
    /\ packet.destination_port = request.destination_port_id
    /\ packet.source_port = request.source_port_id

\* let packet_filter = |packet: &contract::PacketData| { .. }
packet_filter(request, packet) ==
    IF request.sequences # {} /\ packet.sequence \notin request.sequences THEN FALSE
    ELSE IF packet.destination_channel # request.destination_channel_id THEN FALSE
    ELSE IF packet.source_channel # request.source_channel_id THEN FALSE
    ELSE IF packet.destination_port # request.destination_port_id THEN FALSE
    ELSE IF packet.source_port # request.source_port_id THEN FALSE
    ELSE TRUE

\* A client-event closure that lets every update-client event through.
client_events_item_any_client(client_id, log) ==
    IF ~IsSome(decode_log(log)) THEN Aborts
    ELSE IF log.variant # "UpdateClientFilter" THEN Skips
    ELSE transpose(ibc_event_from_ibc_handler_event(log.block_number,
                                                    log.transaction_hash, log))

\* the filter_map closure of query_txs, client-event form: decode_log is
\* unwrapped with expect("parse log"), then only an UpdateClientFilter whose
\* client_id equals the requested one goes on to the translation
client_events_item(client_id, log) ==
    IF ~IsSome(decode_log(log)) THEN Aborts
    ELSE IF ~(log.variant = "UpdateClientFilter" /\ log.client_id = client_id) THEN Skips
    ELSE transpose(ibc_event_from_ibc_handler_event(log.block_number,
                                                    log.transaction_hash, log))

\* the filter_map closure of query_txs, transaction-hash form: a log of
\* another address is left out before anything is decoded
transaction_events_item(tx_hash, log) ==
    IF log.address # "contract_address" THEN Skips
    ELSE IF ~IsSome(decode_log(log)) THEN Aborts
    ELSE transpose(ibc_event_from_ibc_handler_event(log.block_number, tx_hash, log))

\* logs_iter followed by the filter_map closure of the arm of event_id, in
\* query_packet_events: every fetched log is decoded with expect("parse
\* log"); the arm keeps the logs of its variant (and, for packets, those the
\* packet filter accepts) and translates them with .ok().unwrap_or(None)
packet_events_item(request, log) ==
    IF ~IsSome(decode_log(log)) THEN Aborts
    ELSE LET translated ==
                 ok_unwrap_or_none(ibc_event_from_ibc_handler_event(
                     log.block_number, log.transaction_hash, log))
         IN  CASE request.event_id = "CreateClient" ->
                    IF log.variant = "CreateClientFilter" THEN translated ELSE Skips
               [] request.event_id = "UpdateClient" ->
                    IF log.variant = "UpdateClientFilter" THEN translated ELSE Skips
               [] request.event_id = "SendPacket" ->
                    IF log.variant = "SendPacketFilter"
                    THEN IF ~packet_filter(request, log.packet) THEN Skips ELSE translated
                    ELSE Skips
               [] request.event_id = "WriteAck" ->
                    IF log.variant = "WriteAcknowledgementFilter"
                    THEN IF ~packet_filter(request, log.packet) THEN Skips ELSE translated
                    ELSE Skips

\* the event variant a packet-events request asks for
KindOf(event_id) ==
    CASE event_id = "CreateClient" -> "CreateClientFilter"
      [] event_id = "UpdateClient" -> "UpdateClientFilter"
      [] event_id = "SendPacket" -> "SendPacketFilter"
      [] event_id = "WriteAck" -> "WriteAcknowledgementFilter"

\* the logs a request asks for: emitted by the handler contract, of the
\* block(s) or transaction named, and of the variant, client id or packet
\* named.  Kept as history only (q_hits); no result is computed from it.
Wanted(request, log) ==
    /\ log.address = "contract_address"
    /\ CASE request.op = "client" ->
              /\ log.block_number = request.consensus_height
              /\ log.variant = "UpdateClientFilter"
              /\ log.client_id = request.client_id
         [] request.op = "transaction" ->
              /\ log.transaction_hash = request.tx_hash
              /\ log.variant # "undecodable"
         [] request.op = "packet_events" ->
              /\ IsSome(request.height.height) =>
                    IF request.height.qualifier = "Equal"
                    THEN log.block_number = Unwrap(request.height.height)
                    ELSE log.block_number <= Unwrap(request.height.height)
              /\ log.variant = KindOf(request.event_id)
              /\ log.variant \in {"SendPacketFilter", "WriteAcknowledgementFilter"} =>
                    /\ log.packet.source_port = request.source_port_id
                    /\ log.packet.source_channel = request.source_channel_id
                    /\ log.packet.destination_port = request.destination_port_id
                    /\ log.packet.destination_channel = request.destination_channel_id
                    /\ request.sequences = {} \/ log.packet.sequence \in request.sequences

\* A query whose every iterator chain ends with .take(1).
takes_one_always(op) == TRUE

\* whether the iterator chain of a request ends with .take(1) before it is
\* collected: only the client-event form of query_txs does
takes_one(op) == op = "client"

NoQueryResult == [kind |-> "none", err |-> "", events |-> <<>>]
QueryOk(events) == [kind |-> "Ok", err |-> "", events |-> events]
QueryErr(e) == [kind |-> "Err", err |-> e, events |-> <<>>]
QueryPanic(e) == [kind |-> "panic", err |-> e, events |-> <<>>]

\* the events of the items yielded so far, as the caller gets them
Collected(items) == [i \in 1..Len(items) |-> items[i].event]

QueryIdle ==
    /\ q_pc = "idle"
    /\ q_request = NoRequest
    /\ q_seen = 0
    /\ q_last = 0
    /\ q_hits = <<>>
    /\ q_events = <<>>
    /\ q_result = NoQueryResult

\* the call is entered with a request; outcome is what the first fetches
\* made of it: a result at once, or None when there are logs to go through
QueryEnter(request, outcome) ==
    /\ q_pc = "idle"
    /\ q_request' = request
    /\ q_pc' = IF IsSome(outcome) THEN "done" ELSE "logs"
    /\ q_result' = IF IsSome(outcome) THEN Unwrap(outcome) ELSE NoQueryResult
    /\ UNCHANGED <<q_seen, q_last, q_hits, q_events>>
    /\ UNCHANGED not_query_vars

\* the iterator chain pulls the next log: delivered says whether the log is
\* among those fetched, item is what the closure makes of it, and take_1
\* says whether the chain ends with .take(1)
QueryPull(log, delivered, item, take_1) ==
    LET pos == q_seen + 1
        items == Append(q_events, [event |-> Unwrap(item.event), pos |-> pos, log |-> log])
    IN  /\ q_seen' = pos
        /\ q_last' = log.block_number
        /\ q_hits' = IF Wanted(q_request, log)
                     THEN Append(q_hits, [pos |-> pos, valid |-> log.valid])
                     ELSE q_hits
        /\ IF ~delivered \/ item.kind = "skip"
           THEN UNCHANGED <<q_pc, q_events, q_result>>
           ELSE IF item.kind = "panic"
           THEN q_pc' = "done" /\ q_result' = QueryPanic("parse log")
                /\ UNCHANGED q_events
           ELSE IF item.kind = "err"
           THEN q_pc' = "done" /\ q_result' = QueryErr("other")
                /\ UNCHANGED q_events
           ELSE /\ q_events' = items
                /\ IF take_1
                   THEN q_pc' = "done" /\ q_result' = QueryOk(Collected(items))
                   ELSE UNCHANGED <<q_pc, q_result>>
        /\ UNCHANGED q_request
        /\ UNCHANGED not_query_vars

\* query_txs(QueryTxRequest::Client(..)): get_block at the consensus height,
\* an empty result when the ledger has no such block, else get_logs of that
\* block at the contract address
QueryTxsClient ==
    /\ q_pc = "idle"
    /\ \E request \in ClientRequests,
           answer \in {"get_block_err", "no_hash", "get_logs_err", "logs"} :
            QueryEnter(request,
                IF answer = "get_block_err" THEN Some(QueryErr("other_error"))
                ELSE IF request.consensus_height \notin BlockNumbers THEN Some(QueryOk(<<>>))
                ELSE IF answer = "no_hash" THEN Some(QueryPanic("block.hash.unwrap"))
                ELSE IF answer = "get_logs_err" THEN Some(QueryErr("other_error"))
                ELSE None)

\* .. logs.into_iter().filter_map(..).take(1).collect::<Result<Vec<_>, _>>()
ClientLog ==
    /\ q_pc = "logs" /\ q_request.op = "client" /\ q_seen < MaxQueryLogs
    /\ \E log \in QueryLogs :
        /\ log.block_number >= q_last
        /\ QueryPull(log,
               get_logs(Filter(Some(q_request.consensus_height),
                               Some(q_request.consensus_height)), log),
               client_events_item(q_request.client_id, log),
               takes_one(q_request.op))

\* query_txs(QueryTxRequest::Transaction(..)): get_transaction_receipt, the
\* logs of the receipt, or no log when there is no receipt
QueryTxsTransaction ==
    /\ q_pc = "idle"
    /\ \E request \in TransactionRequests, answer \in {"receipt_err", "receipt"} :
            QueryEnter(request,
                IF answer = "receipt_err" THEN Some(QueryErr("other_error"))
                ELSE IF request.tx_hash \notin TxHashes THEN Some(QueryOk(<<>>))
                ELSE None)

\* .. logs.into_iter().filter_map(..).collect::<Result<Vec<_>, _>>()
TransactionLog ==
    /\ q_pc = "logs" /\ q_request.op = "transaction" /\ q_seen < MaxQueryLogs
    /\ \E log \in QueryLogs :
        /\ log.transaction_hash = q_request.tx_hash
        /\ QueryPull(log, TRUE, transaction_events_item(q_request.tx_hash, log),
                     takes_one(q_request.op))

\* query_packet_events: get_logs with the address and height filter
QueryPacketEvents ==
    /\ q_pc = "idle"
    /\ \E request \in PacketRequests, answer \in {"get_logs_err", "logs"} :
            QueryEnter(request,
                IF answer = "get_logs_err" THEN Some(QueryErr("other_error")) ELSE None)

\* .. logs_iter.filter_map(..).collect()
PacketLog ==
    /\ q_pc = "logs" /\ q_request.op = "packet_events" /\ q_seen < MaxQueryLogs
    /\ \E log \in QueryLogs :
        /\ log.block_number >= q_last
        /\ QueryPull(log, get_logs(packet_events_filter(q_request.height), log),
                     packet_events_item(q_request, log), takes_one(q_request.op))

\* the logs are exhausted: Ok(events)
QueryCollect ==
    /\ q_pc = "logs"
    /\ q_pc' = "done"
    /\ q_result' = QueryOk(Collected(q_events))
    /\ UNCHANGED <<q_request, q_seen, q_last, q_hits, q_events>>
    /\ UNCHANGED not_query_vars

\* the caller took the result; the adapter is ready for the next query
QueryReturn ==
    /\ q_pc = "done"
    /\ q_pc' = "idle"
    /\ q_request' = NoRequest
    /\ q_seen' = 0
    /\ q_last' = 0
    /\ q_hits' = <<>>
    /\ q_events' = <<>>
    /\ q_result' = NoQueryResult
    /\ UNCHANGED not_query_vars

(***************************************************************************)
(* parse_denom_trace.  A string is a sequence of characters; the prefix    *)
(* "channel-" is kept as one character of the model's alphabet.            *)
(***************************************************************************)
Digits == {"7"}

\* the segments raw denoms are put together from: a plain name, channel
\* ids with a number, with a signed number, with no number and with a name
\* for a number, a bare number, and the empty segment
Segments ==
    {<<"p">>, <<"channel-", "7">>, <<"channel-", "+", "7">>, <<"channel-">>,
     <<"channel-", "p">>, <<"7">>, <<>>}

\* str::split('/'): the pieces between the separators, at least one
RECURSIVE split(_)
split(s) ==
    IF \A i \in 1..Len(s) : s[i] # "/"
    THEN <<s>>
    ELSE LET i == CHOOSE i \in 1..Len(s) :
                      s[i] = "/" /\ \A j \in 1..(i - 1) : s[j] # "/"
         IN  <<SubSeq(s, 1, i - 1)>> \o split(SubSeq(s, i + 1, Len(s)))

\* [&str]::join("/")
RECURSIVE join(_)
join(parts) ==
    IF parts = <<>> THEN <<>>
    ELSE IF Len(parts) = 1 THEN parts[1]
    ELSE parts[1] \o <<"/">> \o join(Tail(parts))

\* str::parse::<usize>().is_ok(): an optional "+" and then one digit or more
\* (no number of the model is long enough to overflow)
parse_usize_is_ok(t) ==
    LET digits == IF t # <<>> /\ t[1] = "+" THEN Tail(t) ELSE t
    IN  digits # <<>> /\ \A i \in 1..Len(digits) : digits[i] \in Digits

\* fn is_valid_channel_id(c: &str) -> bool
is_valid_channel_id(c) ==
    IF ~(c # <<>> /\ c[1] = "channel-") THEN FALSE
    ELSE parse_usize_is_ok(Tail(c))

\* the loop of extract_path_and_base_from_full_denom, entered at the
\* (0-based) index i with the path collected so far:
\*   for i in (0..len).step_by(2) {
\*       if i < len - 1 && len > 2 && is_valid_channel_id(parts[i + 1]) {
\*           path.push(parts[i]); path.push(parts[i + 1]);
\*       } else { base.extend_from_slice(&parts[i..]); break; } }
RECURSIVE extract_from(_, _, _)
extract_from(parts, i, path) ==
    LET len == Len(parts)
    IN  IF i >= len THEN [path |-> join(path), base_denom |-> <<>>]
        ELSE IF i < len - 1 /\ len > 2 /\ is_valid_channel_id(parts[i + 2])
        THEN extract_from(parts, i + 2, path \o <<parts[i + 1], parts[i + 2]>>)
        ELSE [path |-> join(path), base_denom |-> join(SubSeq(parts, i + 1, len))]

\* fn extract_path_and_base_from_full_denom(parts: Vec<&str>) -> (String, String)
extract_path_and_base_from_full_denom(parts) == extract_from(parts, 0, <<>>)

\* fn parse_denom_trace(raw_denom: String) -> Result<DenomTrace, Error>
parse_denom_trace(raw_denom) ==
    LET parts == split(raw_denom)
    IN  IF parts[1] = raw_denom
        THEN [path |-> <<>>, base_denom |-> raw_denom]
        ELSE extract_path_and_base_from_full_denom(parts)

NoTrace == [path |-> <<>>, base_denom |-> <<>>]

DenomIdle ==
    /\ dn_pc = "idle"
    /\ dn_raw = <<>>
    /\ dn_trace = NoTrace

\* one parse_denom_trace call on a denom of at most MaxSegments segments
ParseDenomTrace ==
    /\ dn_pc = "idle"
    /\ \E segments \in SeqsUpTo(Segments, MaxSegments) :
        /\ dn_raw' = join(segments)
        /\ dn_trace' = parse_denom_trace(join(segments))
    /\ dn_pc' = "done"
    /\ UNCHANGED not_denom_vars

DenomReturn ==
    /\ dn_pc = "done"
    /\ dn_pc' = "idle"
    /\ dn_raw' = <<>>
    /\ dn_trace' = NoTrace
    /\ UNCHANGED not_denom_vars

(***************************************************************************)
(* query_packet_commitment.  The contract call answers a pair: the hashed  *)
(* commitment (bytes32) and a second component the code discards; the     *)
(* ledger reports an absent commitment as the zero word with the second    *)
(* component false.                                                        *)
(***************************************************************************)

\* bytes32 values a stored commitment can have
CommitmentHashes == {"h1", "h2"}

ZeroBytes32 == "zero32"

\* the answers of self.rt.block_on(call_builder.call()): a transport or
\* contract error, or the pair (commitment, found)
CommitmentAnswers ==
    {[ok |-> FALSE, commitment |-> ZeroBytes32, found |-> FALSE]}
    \cup {[ok |-> TRUE, commitment |-> ZeroBytes32, found |-> FALSE]}
    \cup {[ok |-> TRUE, commitment |-> h, found |-> TRUE] : h \in CommitmentHashes}

\* QueryPacketCommitmentRequest with the _include_proof argument
CommitmentRequests ==
    [sequence : 1..MaxHeight,
     height : {None} \cup {Some(h) : h \in 1..MaxHeight},   \* Latest | Specific(h)
     include_proof : {"Yes", "No"}]

NoCommitmentResult == [kind |-> "none", bytes |-> ZeroBytes32, proof |-> None]

\* fn query_packet_commitment(&self, request, _include_proof)
\*     -> Result<(Vec<u8>, Option<MerkleProof>), Error>
query_packet_commitment(request, answer) ==
    IF ~answer.ok
    THEN [kind |-> "Err", bytes |-> ZeroBytes32, proof |-> None]
    ELSE [kind |-> "Ok", bytes |-> answer.commitment, proof |-> None]

CommitmentIdle ==
    /\ pc_pc = "idle"
    /\ pc_request = [sequence |-> 1, height |-> None, include_proof |-> "No"]
    /\ pc_answer = [ok |-> FALSE, commitment |-> ZeroBytes32, found |-> FALSE]
    /\ pc_result = NoCommitmentResult

\* one call: the request, the ledger's answer, the result
QueryPacketCommitment ==
    /\ pc_pc = "idle"
    /\ \E request \in CommitmentRequests, answer \in CommitmentAnswers :
        /\ pc_request' = request
        /\ pc_answer' = answer
        /\ pc_result' = query_packet_commitment(request, answer)
    /\ pc_pc' = "done"
    /\ UNCHANGED not_commitment_vars

CommitmentReturn ==
    /\ pc_pc = "done"
    /\ pc_pc' = "idle"
    /\ UNCHANGED <<pc_request, pc_answer, pc_result>>
    /\ UNCHANGED not_commitment_vars

(***************************************************************************)
(* ckb4ibc: convert_msg_to_ckb_tx and the Converter it reads the cached    *)
(* cells from.  A cache entry is Some(cell) or None; the conversions of    *)
(* chan.rs, conn.rs and client.rs are taken as the lookups they make.      *)
(***************************************************************************)

\* the four caches of struct Converter that a getter unwraps
ContextEntries ==
    {"connection_cache", "channel_cache", "channel_input_data", "packet_input_data"}

\* a Converter: for each cache, the entry under the message's identifiers
Contexts == [ContextEntries -> {None, Some("cell")}]

\* msg: Any, with what from_any makes of its value and the entries its
\* conversion asks the Converter for
CkbMessages ==
    [type_url : TypeUrls, decodes : BOOLEAN, refers_to : SUBSET ContextEntries]

\* match msg.type_url.as_str() of convert_msg_to_ckb_tx: the conversion a type
\* url is dispatched to; None is the `_ => todo!()` arm
ckb_conversion(url) ==
    CASE url = "create_client" -> Some("convert_create_client")
      [] url = "update_client" -> Some("convert_update_client")
      [] url = "conn_open_init" -> Some("convert_conn_open_init_to_tx")
      [] url = "conn_open_try" -> Some("convert_conn_open_try_to_tx")
      [] url = "conn_open_ack" -> Some("convert_conn_open_ack_to_tx")
      [] url = "conn_open_confirm" -> Some("convert_conn_open_confirm_to_tx")
      [] url = "chan_open_init" -> Some("convert_chan_open_init_to_tx")
      [] url = "chan_open_try" -> Some("convert_chan_open_try_to_tx")
      [] url = "chan_open_ack" -> Some("convert_chan_open_ack_to_tx")
      [] url = "chan_open_confirm" -> Some("convert_chan_open_confirm_to_tx")
      [] url = "chan_close_init" -> Some("convert_chan_close_init_to_tx")
      [] url = "recv_packet" -> Some("convert_recv_packet_to_tx")
      [] url = "acknowledgement" -> Some("convert_ack_packet_to_tx")
      [] OTHER -> None

\* get_ibc_connections, get_ibc_connections_input, get_ibc_channel,
\* get_ibc_channel_input, get_packet_cell_input: each ends in .unwrap(), so
\* the getter panics when the entry is None
getter_panics(context, entry) == ~IsSome(context[entry])

NoConvertResult == [kind |-> "none", err |-> "", tx |-> None]

\* pub fn convert_msg_to_ckb_tx<C: MsgToTxConverter>(msg: Any, converter: &C)
\*     -> Result<CkbTxInfo, Error>
convert_msg_to_ckb_tx(msg, converter) ==
    IF ~IsSome(ckb_conversion(msg.type_url))
    THEN [kind |-> "panic", err |-> "not yet implemented", tx |-> None]
    ELSE IF ~msg.decodes
    THEN [kind |-> "Err", err |-> "protobuf_decode", tx |-> None]
    ELSE IF \E entry \in msg.refers_to : getter_panics(converter, entry)
    THEN [kind |-> "panic", err |-> "unwrap on a None value",
          tx |-> None]
    ELSE [kind |-> "Ok", err |-> "", tx |-> ckb_conversion(msg.type_url)]

ConvertIdle ==
    /\ cv_pc = "idle"
    /\ cv_msg = [type_url |-> "", decodes |-> FALSE, refers_to |-> {}]
    /\ cv_context = [entry \in ContextEntries |-> None]
    /\ cv_result = NoConvertResult

\* one call: the message, the caches as the last refresh left them, the result
ConvertMsgToCkbTx ==
    /\ cv_pc = "idle"
    /\ \E msg \in CkbMessages, converter \in Contexts :
        /\ cv_msg' = msg
        /\ cv_context' = converter
        /\ cv_result' = convert_msg_to_ckb_tx(msg, converter)
    /\ cv_pc' = "done"
    /\ UNCHANGED not_convert_vars

ConvertReturn ==
    /\ cv_pc = "done"
    /\ cv_pc' = "idle"
    /\ cv_msg' = [type_url |-> "", decodes |-> FALSE, refers_to |-> {}]
    /\ cv_context' = [entry \in ContextEntries |-> None]
    /\ cv_result' = NoConvertResult
    /\ UNCHANGED not_convert_vars

(***************************************************************************)
(* query_unreceived_packets.  The ledger holds, for the channel asked      *)
(* about, its ordering, its next sequence to receive and the sequences     *)
(* with a packet receipt.                                                  *)
(***************************************************************************)

\* channel.ordering; "None" is Order::None, an ordering not yet fixed
Orderings == {"Ordered", "Unordered", "None"}

\* the ledger's state for the channel, and failing: the ledger call of this
\* query that fails (0: none; 1: query_channel; 2 and up: the next call, i.e.
\* query_next_sequence_receive or the has_packet_receipt call in that place)
UnreceivedLedgers ==
    [ordering : Orderings, next_sequence_recv : 1..(MaxSeq + 1),
     receipts : SUBSET (1..MaxSeq), failing : 0..(MaxRequest + 1)]

\* request.packet_commitment_sequences
UnreceivedRequests == SeqsUpTo(1..MaxSeq, MaxRequest)

NoUnreceivedResult == [kind |-> "none", sequences |-> <<>>]

\* A filter that drops the next sequence to receive itself.
ordered_keeps_later(seq, max_recv_seq) == seq > max_recv_seq

\* .filter(|seq| *seq >= max_recv_seq)
ordered_keeps(seq, max_recv_seq) == seq >= max_recv_seq

\* for seq in request.packet_commitment_sequences { has_packet_receipt(..)
\*     .call() .map_err(convert_err)?; if !has_receipt { sequences.push(seq) } }
\* entered at index i with the sequences pushed so far
RECURSIVE unordered_from(_, _, _, _)
unordered_from(request, i, sequences, ledger) ==
    IF i > Len(request) THEN [kind |-> "Ok", sequences |-> sequences]
    ELSE IF ledger.failing = i + 1 THEN [kind |-> "Err", sequences |-> <<>>]
    ELSE LET has_receipt == request[i] \in ledger.receipts
         IN  unordered_from(request, i + 1,
                 IF ~has_receipt THEN Append(sequences, request[i]) ELSE sequences,
                 ledger)

\* fn query_unreceived_packets(&self, request: QueryUnreceivedPacketsRequest)
\*     -> Result<Vec<Sequence>, Error>
query_unreceived_packets(request, ledger) ==
    IF ledger.failing = 1 THEN [kind |-> "Err", sequences |-> <<>>]
    ELSE IF ledger.ordering = "Ordered"
    THEN IF ledger.failing = 2 THEN [kind |-> "Err", sequences |-> <<>>]
         ELSE [kind |-> "Ok",
               sequences |-> SelectSeq(request,
                   LAMBDA seq : ordered_keeps(seq, ledger.next_sequence_recv))]
    ELSE IF ledger.ordering = "Unordered"
    THEN unordered_from(request, 1, <<>>, ledger)
    ELSE [kind |-> "Ok", sequences |-> <<>>]

UnreceivedIdle ==
    /\ up_pc = "idle"
    /\ up_request = <<>>
    /\ up_ledger = [ordering |-> "None", next_sequence_recv |-> 1,
                    receipts |-> {}, failing |-> 0]
    /\ up_result = NoUnreceivedResult

\* one call: the request, the ledger as it is during the call, the result
QueryUnreceivedPackets ==
    /\ up_pc = "idle"
    /\ \E request \in UnreceivedRequests, ledger \in UnreceivedLedgers :
        /\ up_request' = request
        /\ up_ledger' = ledger
        /\ up_result' = query_unreceived_packets(request, ledger)
    /\ up_pc' = "done"
    /\ UNCHANGED not_unreceived_vars

UnreceivedReturn ==
    /\ up_pc = "done"
    /\ up_pc' = "idle"
    /\ up_request' = <<>>
    /\ up_ledger' = [ordering |-> "None", next_sequence_recv |-> 1,
                     receipts |-> {}, failing |-> 0]
    /\ up_result' = NoUnreceivedResult
    /\ UNCHANGED not_unreceived_vars

(***************************************************************************)
(* tools/test-framework: ibc_token_transfer and                            *)
(* fetch_all_ibc_events_from_tx_logs.                                      *)
(***************************************************************************)

\* the logs a sendTransfer receipt is put together from: a SendPacket of one
\* of two packets, whose fields parse or not, a WriteAcknowledgement, an
\* event without a canonical kind and a log no event of the ABI matches,
\* each from the IBC handler or from another contract
TransferLogs ==
    {QueryLog(a, 1, "SendPacketFilter", "", p, ok) :
        a \in Addresses, p \in {BasePacket, [BasePacket EXCEPT !.sequence = 2]},
        ok \in BOOLEAN}
    \cup {QueryLog(a, 1, v, "", NoPacket, TRUE) :
        a \in Addresses,
        v \in {"WriteAcknowledgementFilter", "OwnershipTransferredFilter",
               "undecodable"}}

\* setup: Provider::connect, new_contract, hex::decode, tx.send (errors
\* returned with ?) and read_deployed_contracts, the ERC20 approval (expect and
\* unwrap); receipt: what pending_tx.await answered
TransferEnvs ==
    [setup : {"ok", "err", "panic"},
     receipt : {None} \cup
         {Some(r) : r \in [logs : SeqsUpTo(TransferLogs, MaxTransferLogs),
                           block_number : {None} \cup {Some(b) : b \in BlockNumbers},
                           transaction_hash : TxHashes]}]

NoTransferEnv == [setup |-> "ok", receipt |-> None]

NoEvents == [kind |-> "none", events |-> <<>>]

\* logs.iter().filter_map(|log| { decode_log(..).expect("decode log");
\*     ibc_event_from_ibc_handler_event(height, tx_hash, event).transpose() })
\*     .collect::<Result<_, eyre::Error>>()
\* entered at log i with the events collected so far
RECURSIVE fetch_from(_, _, _, _, _)
fetch_from(height, tx_hash, logs, i, events) ==
    IF i > Len(logs) THEN [kind |-> "Ok", events |-> events]
    ELSE IF logs[i].variant = "undecodable" THEN [kind |-> "panic", events |-> <<>>]
    ELSE LET item == transpose(ibc_event_from_ibc_handler_event(height, tx_hash, logs[i]))
         IN  CASE item.kind = "err" -> [kind |-> "Err", events |-> <<>>]
               [] item.kind = "ok" ->
                    fetch_from(height, tx_hash, logs, i + 1,
                               Append(events, Unwrap(item.event)))
               [] OTHER -> fetch_from(height, tx_hash, logs, i + 1, events)

\* pub fn fetch_all_ibc_events_from_tx_logs(block_number: u64,
\*     tx_hash: [u8; 32], logs: &[Log]) -> Result<Vec<IbcEventWithHeight>, eyre::Error>
fetch_all_ibc_events_from_tx_logs(block_number, tx_hash, logs) ==
    fetch_from(block_number, tx_hash, logs, 1, <<>>)

\* A search that takes the last SendPacket event.
find_send_packet_last(events) ==
    LET hits == {i \in 1..Len(events) : events[i].event = "SendPacketFilter"}
    IN  IF hits = {} THEN None
        ELSE Some(events[CHOOSE i \in hits : \A j \in hits : j <= i].packet)

\* events.into_iter().find_map(|event| match event.event {
\*     IbcEvent::SendPacket(ev) => Some(ev.packet), _ => None })
find_send_packet(events) ==
    LET hits == {i \in 1..Len(events) : events[i].event = "SendPacketFilter"}
    IN  IF hits = {} THEN None ELSE Some(events[Min(hits)].packet)

TransferOut(kind, err, packet) == [kind |-> kind, err |-> err, packet |-> packet]

\* .filter(|log| log.address == ibc_handler_address)
ibc_logs(receipt) ==
    SelectSeq(receipt.logs, LAMBDA log : log.address = "contract_address")

\* pub async fn ibc_token_transfer(..) -> Result<Packet, Error>, from the
\* answers of the set-up steps and of the ledger
ibc_token_transfer(env) ==
    IF env.setup = "err" THEN TransferOut("Err", "setup", None)
    ELSE IF env.setup = "panic" THEN TransferOut("panic", "setup", None)
    ELSE IF ~IsSome(env.receipt)
    THEN TransferOut("Err", "axon send ibc transfer no receipt", None)
    ELSE LET receipt == Unwrap(env.receipt)
         IN  IF ~IsSome(receipt.block_number)
             THEN TransferOut("panic", "block_number unwrap", None)
             ELSE LET events == fetch_all_ibc_events_from_tx_logs(
                                    Unwrap(receipt.block_number),
                                    receipt.transaction_hash, ibc_logs(receipt))
                      packet == find_send_packet(events.events)
                  IN  IF events.kind = "panic"
                      THEN TransferOut("panic", "decode log", None)
                      ELSE IF events.kind = "Err"
                      THEN TransferOut("Err", "translate", None)
                      ELSE IF ~IsSome(packet)
                      THEN TransferOut("Err", "failed to find send packet event", None)
                      ELSE TransferOut("Ok", "", packet)

\* whether the call got as far as fetch_all_ibc_events_from_tx_logs
FetchCalled(env) ==
    /\ env.setup = "ok"
    /\ IsSome(env.receipt)
    /\ IsSome(Unwrap(env.receipt).block_number)

TransferIdle ==
    /\ tt_pc = "idle"
    /\ tt_env = NoTransferEnv
    /\ tt_events = NoEvents
    /\ tt_result = TransferOut("none", "", None)

\* one call, from its entry to its return
IbcTokenTransfer ==
    /\ tt_pc = "idle"
    /\ \E env \in TransferEnvs :
        /\ tt_env' = env
        /\ tt_events' = IF FetchCalled(env)
                        THEN fetch_all_ibc_events_from_tx_logs(
                                 Unwrap(Unwrap(env.receipt).block_number),
                                 Unwrap(env.receipt).transaction_hash,
                                 ibc_logs(Unwrap(env.receipt)))
                        ELSE NoEvents
        /\ tt_result' = ibc_token_transfer(env)
    /\ tt_pc' = "done"
    /\ UNCHANGED not_transfer_vars

TransferReturn ==
    /\ tt_pc = "done"
    /\ tt_pc' = "idle"
    /\ tt_env' = NoTransferEnv
    /\ tt_events' = NoEvents
    /\ tt_result' = TransferOut("none", "", None)
    /\ UNCHANGED not_transfer_vars

(***************************************************************************)
(* Specifications: one per component, each from the state after bootstrap. *)
(***************************************************************************)
InitMonitor == MonitorIdle /\ ProofsIdle /\ SendIdle /\ BatchIdle /\ QueryIdle
    /\ TransferIdle
    /\ UnreceivedIdle
    /\ ConvertIdle
    /\ CommitmentIdle
    /\ DenomIdle

NextMonitor == subscribe \/ shutdown

SpecMonitor == InitMonitor /\ [][NextMonitor]_vars

InitProofs == MonitorIdle /\ ProofsIdle /\ SendIdle /\ BatchIdle /\ QueryIdle
    /\ TransferIdle
    /\ UnreceivedIdle
    /\ ConvertIdle
    /\ CommitmentIdle
    /\ DenomIdle

NextProofs ==
    \/ GetProofsCall
    \/ FetchBlock
    \/ FetchPreviousBlock
    \/ PollProof
    \/ FetchMetadata
    \/ VerifyBlock
    \/ FetchStorageProof
    \/ GetProofsReturn
    \/ LedgerAdvance

SpecProofs == InitProofs /\ [][NextProofs]_vars

\* The pipeline is one async task driven by rt.block_on: the runtime keeps
\* running it, so a step that is ready is taken; a poll that finds the proof
\* stored is assumed to be answered without transport failure at some time.
\* Calls and the ledger's progress come from outside and are not forced.
SpecProofsFair ==
    /\ InitProofs
    /\ [][NextProofs]_vars
    /\ WF_vars(FetchBlock)
    /\ WF_vars(FetchPreviousBlock)
    /\ WF_vars(PollProof /\ gp_pc' = "meta")
    /\ WF_vars(FetchMetadata)
    /\ WF_vars(VerifyBlock)
    /\ WF_vars(FetchStorageProof)

InitSend == MonitorIdle /\ ProofsIdle /\ SendIdle /\ BatchIdle /\ QueryIdle
    /\ TransferIdle
    /\ UnreceivedIdle
    /\ ConvertIdle
    /\ CommitmentIdle
    /\ DenomIdle

NextSend == SendMessage \/ SendReturn

SpecSend == InitSend /\ [][NextSend]_vars

InitBatch == MonitorIdle /\ ProofsIdle /\ SendIdle /\ BatchIdle /\ QueryIdle
    /\ TransferIdle
    /\ UnreceivedIdle
    /\ ConvertIdle
    /\ CommitmentIdle
    /\ DenomIdle

NextBatch == BatchCall \/ BatchStep \/ BatchFinish \/ BatchReturn

SpecBatch == InitBatch /\ [][NextBatch]_vars

InitQuery == MonitorIdle /\ ProofsIdle /\ SendIdle /\ BatchIdle /\ QueryIdle
    /\ TransferIdle
    /\ UnreceivedIdle
    /\ ConvertIdle
    /\ CommitmentIdle
    /\ DenomIdle

NextQuery ==
    \/ QueryTxsClient
    \/ ClientLog
    \/ QueryTxsTransaction
    \/ TransactionLog
    \/ QueryPacketEvents
    \/ PacketLog
    \/ QueryCollect
    \/ QueryReturn

SpecQuery == InitQuery /\ [][NextQuery]_vars

InitDenom == MonitorIdle /\ ProofsIdle /\ SendIdle /\ BatchIdle /\ QueryIdle
    /\ TransferIdle
    /\ UnreceivedIdle
    /\ ConvertIdle
    /\ CommitmentIdle
    /\ DenomIdle

NextDenom == ParseDenomTrace \/ DenomReturn

SpecDenom == InitDenom /\ [][NextDenom]_vars

InitCommitment == MonitorIdle /\ ProofsIdle /\ SendIdle /\ BatchIdle /\ QueryIdle
    /\ TransferIdle
    /\ UnreceivedIdle
    /\ ConvertIdle
    /\ DenomIdle /\ CommitmentIdle

NextCommitment == QueryPacketCommitment \/ CommitmentReturn

SpecCommitment == InitCommitment /\ [][NextCommitment]_vars

InitConvert == MonitorIdle /\ ProofsIdle /\ SendIdle /\ BatchIdle /\ QueryIdle
    /\ TransferIdle
    /\ UnreceivedIdle
    /\ DenomIdle /\ CommitmentIdle /\ ConvertIdle

NextConvert == ConvertMsgToCkbTx \/ ConvertReturn

SpecConvert == InitConvert /\ [][NextConvert]_vars

InitUnreceived == MonitorIdle /\ ProofsIdle /\ SendIdle /\ BatchIdle /\ QueryIdle
    /\ TransferIdle
    /\ DenomIdle /\ CommitmentIdle /\ ConvertIdle /\ UnreceivedIdle

NextUnreceived == QueryUnreceivedPackets \/ UnreceivedReturn

SpecUnreceived == InitUnreceived /\ [][NextUnreceived]_vars

InitTransfer == MonitorIdle /\ ProofsIdle /\ SendIdle /\ BatchIdle /\ QueryIdle
    /\ DenomIdle /\ CommitmentIdle /\ ConvertIdle /\ UnreceivedIdle
    /\ TransferIdle

NextTransfer == IbcTokenTransfer \/ TransferReturn

SpecTransfer == InitTransfer /\ [][NextTransfer]_vars

(***************************************************************************)
(* Claims on the event monitor lifecycle (checked under SpecMonitor).      *)
(***************************************************************************)
\* the subscribe calls of the log that started a monitor task
Starters == {i \in 1..Len(mon_log) : IsSome(mon_log[i].started)}

\* C5: after any sequence of subscribe calls at most one event-monitor task was
\* started; no call returned a subscription before the call that started it,
\* that call stored its handle, every later call started nothing, and every
\* subscription handed out comes from that one stored monitor.
C5_AtMostOneMonitorTask ==
    /\ Cardinality(threads) <= 1
    /\ Cardinality(Starters) <= 1
    /\ monitors = Cardinality(threads)
    /\ IsSome(tx_monitor_cmd) <=> threads # {}
    /\ \A i \in Starters :
          /\ tx_monitor_cmd = mon_log[i].started
          /\ \A j \in 1..(i - 1) :
                mon_log[j].result = "Err" /\ mon_log[j].monitor = None
    /\ \A i \in 1..Len(mon_log) :
          (mon_log[i].op = "subscribe" /\ mon_log[i].result = "Ok")
              => /\ mon_log[i].monitor = tx_monitor_cmd
                 /\ Unwrap(mon_log[i].monitor) \in threads

\* C5 witness: three subscribe calls returned a subscription, the first of
\* them started the task, and one task runs.
C5_Witness ==
    /\ Len(mon_log) >= 3
    /\ \A i \in 1..3 : mon_log[i].op = "subscribe" /\ mon_log[i].result = "Ok"
    /\ Starters = {1}
    /\ threads = {1}

\* C6: shutdown on an adapter on which no monitor was ever started (subscribe
\* never called) returns Ok and sends no Shutdown command; on an adapter
\* whose monitor was started by subscribe it sends exactly one Shutdown
\* command, to that monitor. No command is sent before shutdown is called.
C6_ShutdownSafe ==
    /\ adapter = "alive" => shutdown_sent = <<>>
    /\ adapter = "consumed" =>
          /\ mon_log[Len(mon_log)].op = "shutdown"
          /\ threads = {} =>
                /\ shutdown_sent = <<>>
                /\ mon_log[Len(mon_log)].result = "Ok"
          /\ threads # {} =>
                /\ Len(shutdown_sent) = 1
                /\ shutdown_sent[1] \in threads

\* C6 witness: subscribe started a monitor, then shutdown sent it the command.
C6_Witness ==
    /\ adapter = "consumed"
    /\ threads = {1}
    /\ shutdown_sent = <<1>>
    /\ Len(mon_log) >= 2

(***************************************************************************)
(* Claims on the message dispatcher (SpecBatch, SpecSend).                 *)
(***************************************************************************)
\* C2: the messages of a batch are handed to send_message strictly in input
\* order, message k + 1 only after message k returned its event; contract
\* calls reach the ledger in input order, at most one per message; when a
\* message fails the call returns that message's error and no later message
\* is processed or submitted.
C2_SequentialAbortOnFirstError ==
    /\ \A k \in 1..Len(sm_processed) :
          /\ sm_processed[k].idx = k
          /\ sm_processed[k].url = sm_batch[k]
          /\ k < Len(sm_processed) => sm_processed[k].out.kind = "Ok"
    /\ \A j \in 1..Len(sm_ledger) :
          /\ sm_ledger[j].idx <= Len(sm_processed)
          /\ \A i \in 1..(j - 1) : sm_ledger[i].idx < sm_ledger[j].idx
    /\ sm_pc = "running" => sm_idx = Len(sm_processed) + 1
    /\ sm_result.kind = "Err" =>
          /\ Len(sm_processed) >= 1
          /\ sm_processed[Len(sm_processed)].out.kind = "Err"
          /\ sm_result.err = sm_processed[Len(sm_processed)].out.err
          /\ \A j \in 1..Len(sm_ledger) : sm_ledger[j].idx <= Len(sm_processed)
    /\ sm_result.kind = "Ok" =>
          \A k \in 1..Len(sm_processed) : sm_processed[k].out.kind = "Ok"

\* C2 witness: the first of two messages was submitted and failed; the call
\* returned its error and the second message was never processed.
C2_Witness ==
    /\ sm_pc = "done"
    /\ Len(sm_batch) = 2
    /\ sm_result.kind = "Err"
    /\ Len(sm_processed) = 1
    /\ Len(sm_ledger) = 1
    /\ sm_ledger[1].idx = 1

\* C3: when every message succeeds the call returns a list as long as the
\* batch whose i-th element is the event send_message recovered for the i-th
\* message; an empty batch returns the empty list without any submission.
C3_OneEventPerMessageInOrder ==
    /\ sm_result.kind = "Ok" =>
          /\ Len(sm_result.events) = Len(sm_batch)
          /\ Len(sm_processed) = Len(sm_batch)
          /\ \A i \in 1..Len(sm_batch) :
                /\ sm_processed[i].url = sm_batch[i]
                /\ sm_result.events[i] = Unwrap(sm_processed[i].out.event)
                /\ Some(sm_result.events[i].event) = expected_filter(sm_batch[i])
    /\ (sm_pc = "done" /\ sm_batch = <<>>) =>
          /\ sm_result.kind = "Ok"
          /\ sm_result.events = <<>>
          /\ sm_ledger = <<>>

\* C3 witness: a batch of two messages returned two different events.
C3_Witness ==
    /\ sm_result.kind = "Ok"
    /\ Len(sm_batch) = 2
    /\ Len(sm_result.events) = 2
    /\ sm_result.events[1] # sm_result.events[2]
    /\ Len(sm_ledger) = 2

\* the logs of the receipt of the send_message call at hand
SdLogs == IF IsSome(sd_env.receipt) THEN Unwrap(sd_env.receipt).logs ELSE <<>>

\* those of them that decode to the event variant expected for the message
SdHits ==
    {i \in 1..Len(SdLogs) :
        /\ IsSome(expected_filter(sd_message))
        /\ SdLogs[i].variant = Unwrap(expected_filter(sd_message))}

C1_ProofsOnlyAfterVerification ==
    /\ gp_result.kind = "Ok" =>
          /\ gp_verify = "ok"
          /\ IsSome(gp_result.proofs)
          /\ verify_proof(Unwrap(gp_block), Unwrap(gp_state_root),
                          Unwrap(gp_validators), Unwrap(gp_proof))
          /\ Unwrap(gp_result.proofs).block = Unwrap(gp_block)
          /\ Unwrap(gp_result.proofs).block_proof = Unwrap(gp_proof)
          /\ Unwrap(gp_result.proofs).previous_state_root = Unwrap(gp_state_root)
          /\ Unwrap(gp_block).number = gp_height
    /\ gp_verify # "ok" => gp_result.proofs = None /\ gp_result.kind # "Ok"

\* C1 witness: a call at height 3 returned Proofs after a successful verification.
C1_Witness ==
    /\ gp_result.kind = "Ok"
    /\ gp_height = 3
    /\ gp_verify = "ok"
    /\ gp_storage = "nonempty"

\* C7: get_proofs with revision height 0 returns an (InvalidHeight) error
\* value to the caller, before any ledger call was attempted.
C7_HeightZeroReturnsError ==
    (gp_pc = "done" /\ gp_height = 0) =>
        /\ gp_result.kind = "Err"
        /\ gp_calls = <<>>

\* C8: when eth_get_proof answers with an empty list of storage proofs,
\* get_proofs returns a (MalformedProof) error value to its caller: neither a
\* Proofs value nor an abort.
C8_EmptyStorageProofReturnsError ==
    (gp_pc = "done" /\ gp_storage = "empty") => gp_result.kind = "Err"

\* C9: when finality verification fails, get_proofs returns an error to its
\* caller whether or not the diagnostic dump file could be written.
C9_VerifyFailureReturnsError ==
    (gp_pc = "done" /\ gp_verify = "failed") => gp_result.kind = "Err"

\* C10: a transport failure of the storage-proof fetch (eth_get_proof) makes
\* get_proofs return an error value, as a failure of the block, finality-proof
\* or validator-set fetch does.
C10_StorageFetchFailureReturnsError ==
    (gp_pc = "done" /\ gp_storage = "rpc_err") => gp_result.kind = "Err"

\* C11: the four ingredients handed to verify_proof in one get_proofs call are
\* consistent with the target height H: the block is block H, the state root
\* is the one of block H - 1, the finality proof is the one fetched at H + 1
\* (which finalizes H), and the validator set is the one in force at H, not a
\* set that became current while the call was waiting.
C11_IngredientsConsistentWithHeight ==
    gp_pc = "verify" =>
        /\ Unwrap(gp_block) = LedgerBlock(gp_height)
        /\ Unwrap(gp_state_root) = LedgerBlock(gp_height - 1).state_root
        /\ Unwrap(gp_proof).number = gp_height
        /\ \E i \in 1..Len(gp_calls) :
              gp_calls[i] = [call |-> "get_proof_by_id", id |-> gp_height + 1]
        /\ Unwrap(gp_validators) = ValidatorSet(Epoch(gp_height))

\* C12: in get_proofs_ingredients the fetch of the finality proof of
\* height + 1 is repeated, with the same fixed pause after each "no proof yet"
\* answer, exactly as long as the ledger gives that answer: a poll taken
\* while the proof is not stored goes round again (or leaves with the fetch's
\* failure), a poll taken once it is stored leaves the loop; once the proof
\* is stored the call goes on and comes to its end; no other step of the
\* pipeline is taken twice in one call.
C12_PollUntilProofAvailable ==
    /\ [][ /\ (gp_pc = "proof" /\ gp_calls' # gp_calls) =>
                IF tip < gp_height + 1
                THEN \/ gp_pc' = "proof" /\ gp_polls' = gp_polls + 1
                     \/ gp_pc' = "done" /\ gp_result' = Err("rpc")
                ELSE \/ gp_pc' = "meta" /\ IsSome(gp_proof')
                     \/ gp_pc' = "done" /\ gp_result' = Err("rpc")
           /\ (gp_pc' = gp_pc /\ tip' = tip) => gp_pc = "proof"
         ]_vars
    /\ [](\A i \in 1..Len(gp_calls) :
            /\ gp_calls[i].call = "sleep" =>
                  /\ gp_calls[i].id = PollIntervalSecs
                  /\ i > 1
                  /\ gp_calls[i - 1] = [call |-> "get_proof_by_id", id |-> gp_height + 1]
            /\ gp_calls[i].call \notin {"sleep", "get_proof_by_id"} =>
                  \A j \in 1..Len(gp_calls) : gp_calls[j] = gp_calls[i] => j = i)
    /\ (gp_pc = "proof" /\ tip >= gp_height + 1) ~> (gp_pc = "done")

\* C12 witness: a call that was told "no proof yet" the full number of times
\* the model follows went on once the proof was stored and returned proofs.
C12_Witness ==
    /\ gp_polls = MaxPolls
    /\ gp_result.kind = "Ok"
    /\ gp_pc = "done"

(***************************************************************************)
(* The outcome of one send_message call.                                   *)
(***************************************************************************)
\* the call at hand got a receipt for a message of a dispatched type url
SdReceipt == sd_pc = "done" /\ sd_env.submit = "receipt" /\ sd_message \in SupportedUrls

\* C13: the event send_message returns carries as height the block number of
\* the message's inclusion receipt and as transaction hash the hash of that
\* same receipt; with no log of the expected kind in the receipt the call
\* fails with the not-find-right-event error.
C13_EventCarriesReceiptHeightAndHash ==
    SdReceipt =>
        /\ sd_result.kind = "Ok" =>
              /\ SdHits # {}
              /\ Some(Unwrap(sd_result.event).height) = Unwrap(sd_env.receipt).block_number
              /\ Unwrap(sd_result.event).tx_hash = Unwrap(sd_env.receipt).transaction_hash
        /\ SdHits = {} =>
              sd_result = SendErr("not find right event", contract_method(sd_message))

\* C13 witness: a receipt of block 2 with a matching log gave an event of height 2.
C13_Witness ==
    /\ SdReceipt
    /\ sd_result.kind = "Ok"
    /\ Unwrap(sd_env.receipt).block_number = Some(2)
    /\ Unwrap(sd_env.receipt).transaction_hash = 2
    /\ Unwrap(sd_result.event).height = 2

\* C14: send_message given a type url outside the supported client,
\* connection, channel and packet urls fails with the non-support error and
\* makes no contract call, whatever the ledger would have answered.
C14_UnsupportedTypeUrlFailsWithoutCall ==
    (sd_pc = "done" /\ sd_message \notin SupportedUrls) =>
        /\ sd_result.kind = "Err"
        /\ sd_result.err = "non-support message type url"
        /\ sd_result.call = None
        /\ sd_result.event = None

\* C14 witness: an unknown type url was refused.
C14_Witness ==
    /\ sd_pc = "done"
    /\ sd_message = "timeout_on_close"
    /\ sd_result.kind = "Err"

\* C15: when the inclusion receipt has no block number yet, send_message
\* fails with the still-pending outcome, which differs from the outcome of a
\* submission failure and of an event-recovery failure, whatever logs the
\* receipt holds.
C15_PendingReceiptReportedAsStillPending ==
    (SdReceipt /\ Unwrap(sd_env.receipt).block_number = None) =>
        /\ sd_result.kind = "Err"
        /\ sd_result.err = "still pending"

(***************************************************************************)
(* The events recovered from ledger logs.                                  *)
(***************************************************************************)
\* every event a query yielded was made from a log of the handler contract
QueryEventsFromHandler ==
    \A i \in 1..Len(q_events) : q_events[i].log.address = "contract_address"

\* C16: every event recovered from ledger logs, by send_message, by
\* query_txs (both forms) and by query_packet_events, comes from a log whose
\* emitting address is the configured IBC handler contract address; a log of
\* another address yields no event.
C16_EventsOnlyFromHandlerAddress ==
    /\ (sd_pc = "done" /\ sd_result.kind = "Ok") =>
          SdLogs[Unwrap(sd_result.event).log].address = "contract_address"
    /\ QueryEventsFromHandler

\* the call at hand is over and was a request of the given form
QueryDone(op) == q_pc = "done" /\ q_request.op = op

\* the positions, in the ledger's order, of the logs the yielded events were
\* made from
EventPositions == [i \in 1..Len(q_events) |-> q_events[i].pos]

\* C17: query_txs with a client-event request returns at most one event;
\* when it returns one, it is the update-client event of the first log, in
\* the log order of the block at the requested consensus height, whose
\* client_id equals the requested client id; a log with another client id or
\* of another variant is never returned; when the ledger has no block at
\* the consensus height the result is the empty list.
C17_ClientQueryReturnsFirstMatchingUpdate ==
    QueryDone("client") =>
        /\ Len(q_result.events) <= 1
        /\ q_result.kind = "Ok" => q_result.events = Collected(q_events)
        /\ \A i \in 1..Len(q_events) :
              /\ q_events[i].log.variant = "UpdateClientFilter"
              /\ q_events[i].log.client_id = q_request.client_id
              /\ q_events[i].log.block_number = q_request.consensus_height
              /\ q_events[i].event.height = q_request.consensus_height
              /\ q_hits # <<>>
              /\ q_events[i].pos = q_hits[1].pos
        /\ q_request.consensus_height \notin BlockNumbers =>
              /\ q_seen = 0
              /\ q_result \in {QueryOk(<<>>), QueryErr("other_error")}

\* C17 witness: the event returned was made from the second log of the
\* block, the first one being an update of another client.
C17_Witness ==
    /\ QueryDone("client")
    /\ q_result.kind = "Ok"
    /\ Len(q_result.events) = 1
    /\ q_events[1].pos = 2
    /\ q_last = q_request.consensus_height

\* C18: every send-packet or write-acknowledgement event returned by
\* query_packet_events was made from a log whose packet meets every field of
\* the request's packet filter:
\* source port, source channel, destination port and destination channel
\* equal the requested ones, and the sequence is in the requested set unless
\* that set is empty, in which case any sequence is accepted.
C18_PacketEventsMeetPacketFilter ==
    QueryDone("packet_events") =>
        /\ q_result.kind = "Ok" => q_result.events = Collected(q_events)
        /\ \A i \in 1..Len(q_events) :
              LET packet == q_events[i].log.packet
              IN  q_events[i].log.variant \in {"SendPacketFilter",
                                               "WriteAcknowledgementFilter"} =>
                      /\ packet.source_port = q_request.source_port_id
                      /\ packet.source_channel = q_request.source_channel_id
                      /\ packet.destination_port = q_request.destination_port_id
                      /\ packet.destination_channel = q_request.destination_channel_id
                      /\ q_request.sequences # {} =>
                            packet.sequence \in q_request.sequences

\* C18 witness: with the sequence set {1}, one send-packet event came back
\* from three logs, the others having been left out.
C18_Witness ==
    /\ QueryDone("packet_events")
    /\ q_request.event_id = "SendPacket"
    /\ q_request.sequences = {1}
    /\ q_seen = MaxQueryLogs
    /\ q_result.kind = "Ok"
    /\ Len(q_result.events) = 1
    /\ q_events[1].log.variant = "SendPacketFilter"

\* C19 as stated: one query_packet_events call returns at most one event of
\* the kind asked for, even when several logs of that kind meet the filter.
C19_AtMostOnePacketEvent ==
    QueryDone("packet_events") => Len(q_result.events) <= 1

\* C19: query_packet_events returns one event for every fetched log of the
\* kind asked for that meets the packet filter and translates, in the
\* ledger's log order: an event yielded does not end the iteration, so
\* several matching logs give several events.
C19_OneEventPerMatchingLog ==
    /\ [](QueryDone("packet_events") /\ q_result.kind = "Ok" =>
            /\ q_result.events = Collected(q_events)
            /\ EventPositions =
                  [i \in 1..Len(SelectSeq(q_hits, LAMBDA h : h.valid)) |->
                      SelectSeq(q_hits, LAMBDA h : h.valid)[i].pos]
            /\ \A i \in 1..Len(q_events) :
                  q_events[i].log.variant = KindOf(q_request.event_id))
    /\ [][(q_request.op = "packet_events" /\ q_events' # q_events /\ q_pc = "logs")
              => q_pc' = "logs"]_vars

\* C19 witness: two logs met the packet filter and two events were returned.
C19_Witness ==
    /\ QueryDone("packet_events")
    /\ q_request.event_id = "WriteAck"
    /\ q_request.sequences = {1, 2}
    /\ q_result.kind = "Ok"
    /\ Len(q_result.events) = 2
    /\ Len(q_hits) = 2

\* C20: in query_packet_events, a log of the kind asked for that meets the
\* packet filter and fails to translate into a canonical event makes the
\* call return an error; it is never left out of an Ok result.  (A call
\* aborted by an undecodable log returns nothing at all.)
C20_TranslationFailureReturnsError ==
    (/\ QueryDone("packet_events")
     /\ \E i \in 1..Len(q_hits) : ~q_hits[i].valid
     /\ q_result.kind # "panic") =>
        q_result.kind = "Err"

(***************************************************************************)
(* The denom trace.                                                        *)
(***************************************************************************)
\* a channel id as the denom grammar has it: "channel-" and a decimal number
IsChannelSegment(c) ==
    /\ Len(c) >= 2
    /\ c[1] = "channel-"
    /\ \A i \in 2..Len(c) : c[i] \in Digits

\* the number of leading (port, channel-<N>) pairs of a list of segments
RECURSIVE LeadingPairs(_)
LeadingPairs(parts) ==
    IF Len(parts) >= 2 /\ IsChannelSegment(parts[2])
    THEN 1 + LeadingPairs(SubSeq(parts, 3, Len(parts)))
    ELSE 0

\* path and base as the grammar splits a denom of non-empty segments
DenomSplitAsStated ==
    LET parts == split(dn_raw)
        k == LeadingPairs(parts)
    IN  (dn_pc = "done" /\ \A i \in 1..Len(parts) : parts[i] # <<>>) =>
            /\ Len(parts) = 1 =>
                  dn_trace = [path |-> <<>>, base_denom |-> dn_raw]
            /\ (k >= 1 /\ 2 * k < Len(parts)) =>
                  /\ dn_trace.path = join(SubSeq(parts, 1, 2 * k))
                  /\ dn_trace.base_denom = join(SubSeq(parts, 2 * k + 1, Len(parts)))
            /\ join(SelectSeq(<<dn_trace.path, dn_trace.base_denom>>,
                              LAMBDA x : x # <<>>)) = dn_raw

\* C21: parse_denom_trace splits a denom of non-empty segments into (path,
\* base): a single-segment denom gives an empty path and the input as base;
\* a denom that starts with port/channel-<N> pairs, N a decimal number,
\* followed by further segments gives those leading pairs as path and the
\* remaining segments as base; and joining the non-empty ones of path and
\* base with '/' gives back the input.
C21_DenomSplitRoundTrip == DenomSplitAsStated

(***************************************************************************)
(* The packet-commitment query.                                            *)
(***************************************************************************)

\* C22: query_packet_commitment for a (port, channel, sequence) for which the
\* ledger reports that no commitment exists returns a NotFound outcome, not a
\* successful result holding commitment bytes; when a commitment exists and
\* IncludeProof::No is requested it returns the raw commitment bytes and no
\* proof.
C22_AbsentCommitmentIsNotFound ==
    (pc_pc = "done" /\ pc_answer.ok) =>
        /\ ~pc_answer.found =>
              /\ pc_result.kind = "NotFound"
              /\ pc_result.kind # "Ok"
        /\ (pc_answer.found /\ pc_request.include_proof = "No") =>
              pc_result = [kind |-> "Ok", bytes |-> pc_answer.commitment,
                           proof |-> None]

(***************************************************************************)
(* The UTXO transaction builder.                                           *)
(***************************************************************************)

\* C23: convert_msg_to_ckb_tx given a message whose type tag it does not
\* support returns an UnsupportedMessageType error value to its caller; it
\* never aborts the process and never returns a transaction skeleton.
C23_UnsupportedTagIsAnErrorValue ==
    (cv_pc = "done" /\ ~IsSome(ckb_conversion(cv_msg.type_url))) =>
        /\ cv_result.kind = "Err"
        /\ cv_result.err = "UnsupportedMessageType"
        /\ cv_result.tx = None

\* the entries the message refers to that the context does not hold
MissingEntries == {entry \in cv_msg.refers_to : ~IsSome(cv_context[entry])}

\* C24: when the lookup context lacks an entry the message refers to (the
\* connection cell, the channel, the channel cell input or the packet cell
\* input), the build fails with a StaleContext error value returned to the
\* caller, and no transaction skeleton is produced.
C24_MissingEntryIsStaleContext ==
    (/\ cv_pc = "done"
     /\ IsSome(ckb_conversion(cv_msg.type_url))
     /\ cv_msg.decodes
     /\ MissingEntries # {}) =>
        /\ cv_result.kind = "Err"
        /\ cv_result.err = "StaleContext"
        /\ cv_result.tx = None

\* C25: the type tags convert_msg_to_ckb_tx dispatches to a conversion are
\* the type tags send_message dispatches to a ledger call: a type tag is
\* supported by one if and only if it is supported by the other.
C25_BuilderAndDispatcherSupportSameTags ==
    cv_pc = "done" =>
        (IsSome(ckb_conversion(cv_msg.type_url))
            <=> IsSome(contract_method(cv_msg.type_url)))

\* C26: in send_message the type tags dispatched to a ledger call are the type
\* tags with an entry in the expected-event table: every tag with an expected
\* (or locally synthesized) event can be submitted, every submitted tag has an
\* expected event kind, and no table entry is unreachable.
C26_DispatchedTagsAreTableTags ==
    sd_pc = "done" =>
        (IsSome(contract_method(sd_message)) <=> IsSome(expected_filter(sd_message)))

(***************************************************************************)
(* The order of the ledger calls of get_proofs.                            *)
(***************************************************************************)

\* the ledger calls made so far, the pauses of the poll left out
LedgerCalls == SelectSeq(gp_calls, LAMBDA c : c.call # "sleep")

\* the place of a ledger call in the pipeline of the call at hand
StepOf(c) ==
    CASE c = [call |-> "get_block_by_id", id |-> gp_height] -> 1
      [] c = [call |-> "get_block_by_id", id |-> gp_height - 1] -> 2
      [] c = [call |-> "get_proof_by_id", id |-> gp_height + 1] -> 3
      [] c.call = "get_current_metadata" -> 4
      [] c = [call |-> "eth_get_proof", id |-> gp_height] -> 5
      [] OTHER -> 0

\* block H, block H-1, proof H+1 one or more times, validator set, storage
\* proof: each call is the next step, or another poll
CallsInPipelineOrder ==
    /\ LedgerCalls # <<>> => StepOf(LedgerCalls[1]) = 1
    /\ \A i \in 1..(Len(LedgerCalls) - 1) :
          \/ StepOf(LedgerCalls[i + 1]) = StepOf(LedgerCalls[i]) + 1
          \/ StepOf(LedgerCalls[i]) = 3 /\ StepOf(LedgerCalls[i + 1]) = 3

\* the verification runs after the validator set was fetched, and the storage
\* proof is fetched only after it succeeded
VerificationBetween ==
    /\ gp_verify # "none" =>
          \E i \in 1..Len(LedgerCalls) : StepOf(LedgerCalls[i]) = 4
    /\ (\E i \in 1..Len(LedgerCalls) : StepOf(LedgerCalls[i]) = 5) =>
          gp_verify = "ok"
    /\ gp_verify = "failed" => gp_storage = "none"

\* C27: within one get_proofs call the ledger is accessed in a fixed order:
\* block at height, block at height-1, finality proof at height+1 (polled),
\* validator set, then the verification, and only after it succeeded the
\* storage proof; once a step has failed no later ledger call is made.
C27_LedgerCallsInFixedOrder ==
    /\ [](CallsInPipelineOrder /\ VerificationBetween)
    /\ [][gp_result.kind \in {"Err", "panic"} =>
              (gp_calls' = gp_calls \/ gp_calls' = <<>>)]_vars

\* a call that polled at least once and went through every step
C27_Witness ==
    /\ gp_pc = "done"
    /\ gp_result.kind = "Ok"
    /\ gp_polls >= 1
    /\ Len(LedgerCalls) >= 6

(***************************************************************************)
(* subscribe and shutdown when a step of subscribe fails.                  *)
(***************************************************************************)

\* the call a step has just added to the log
LastCall == mon_log'[Len(mon_log')]

\* a subscribe on an adapter with no stored handle: it starts a monitor, or
\* the start failed and it returns the error with nothing stored or spawned
SubscribeWithoutHandle ==
    (mon_log' # mon_log /\ LastCall.op = "subscribe" /\ ~IsSome(tx_monitor_cmd)) =>
        \/ /\ IsSome(LastCall.started)
           /\ tx_monitor_cmd' = LastCall.started
           /\ threads' = threads \cup {Unwrap(LastCall.started)}
        \/ /\ LastCall.started = None
           /\ LastCall.result = "Err"
           /\ tx_monitor_cmd' = None
           /\ threads' = threads

\* a subscribe on an adapter with a stored handle starts nothing and asks the
\* stored monitor for the subscription
SubscribeWithHandle ==
    (mon_log' # mon_log /\ LastCall.op = "subscribe" /\ IsSome(tx_monitor_cmd)) =>
        /\ LastCall.started = None
        /\ threads' = threads
        /\ tx_monitor_cmd' = tx_monitor_cmd
        /\ LastCall.result = "Ok" => LastCall.monitor = tx_monitor_cmd

\* a shutdown on an adapter with a stored handle sends it the command
ShutdownWithHandle ==
    (mon_log' # mon_log /\ LastCall.op = "shutdown" /\ IsSome(tx_monitor_cmd)) =>
        shutdown_sent' = <<Unwrap(tx_monitor_cmd)>>

\* C28: if starting the event monitor fails, no monitor handle is stored and a
\* later subscribe tries to start one again; if the monitor was started but
\* obtaining the subscription from it fails, the handle stays stored, a later
\* subscribe reuses it without starting a second task, and a later shutdown
\* still sends it the shutdown command.
C28_SubscribeFailureLeavesStateConsistent ==
    [][SubscribeWithoutHandle /\ SubscribeWithHandle /\ ShutdownWithHandle]_vars

\* the start failed, the next subscribe started monitor 1 but got no
\* subscription, the third subscribe got one from monitor 1, and shutdown
\* sent monitor 1 the command
C28_Witness ==
    /\ Len(mon_log) = 4
    /\ mon_log[1] = [op |-> "subscribe", result |-> "Err", started |-> None,
                     monitor |-> None]
    /\ mon_log[2] = [op |-> "subscribe", result |-> "Err", started |-> Some(1),
                     monitor |-> None]
    /\ mon_log[3] = [op |-> "subscribe", result |-> "Ok", started |-> None,
                     monitor |-> Some(1)]
    /\ mon_log[4].op = "shutdown"
    /\ threads = {1}
    /\ shutdown_sent = <<1>>

(***************************************************************************)
(* The unreceived packets of a channel.                                    *)
(***************************************************************************)

\* a sequence the channel has received: below the next sequence to receive
\* on an ordered channel, holding a packet receipt on an unordered one
Received(seq) ==
    IF up_ledger.ordering = "Ordered"
    THEN seq < up_ledger.next_sequence_recv
    ELSE seq \in up_ledger.receipts

\* C29: query_unreceived_packets returns a sub-sequence of the requested
\* sequences, in request order: on an Ordered channel exactly those at or
\* above the channel's next sequence to receive, on an Unordered channel
\* exactly those for which the ledger holds no packet receipt; a sequence
\* already received is never returned.
C29_UnreceivedAreTheNotReceived ==
    (/\ up_pc = "done"
     /\ up_result.kind = "Ok"
     /\ up_ledger.ordering \in {"Ordered", "Unordered"}) =>
        /\ up_result.sequences = SelectSeq(up_request, LAMBDA seq : ~Received(seq))
        /\ \A i \in 1..Len(up_result.sequences) : ~Received(up_result.sequences[i])
        /\ up_ledger.ordering = "Ordered" =>
              \A i \in 1..Len(up_request) :
                  up_request[i] >= up_ledger.next_sequence_recv =>
                      \E j \in 1..Len(up_result.sequences) :
                          up_result.sequences[j] = up_request[i]

\* an Ordered channel that expects sequence 2 next, asked about 3, 1, 2 in
\* that order, answers 3, 2
C29_Witness ==
    /\ up_pc = "done"
    /\ up_ledger.ordering = "Ordered"
    /\ up_ledger.next_sequence_recv = 2
    /\ up_request = <<3, 1, 2>>
    /\ up_result = [kind |-> "Ok", sequences |-> <<3, 2>>]

(***************************************************************************)
(* The token transfer of the test framework.                               *)
(***************************************************************************)

\* the receipt of the call, its logs from the IBC handler (the logs supplied
\* to fetch_all_ibc_events_from_tx_logs), its block number and its hash
TtReceipt == Unwrap(tt_env.receipt)
TtSupplied == SelectSeq(TtReceipt.logs, LAMBDA log : log.address = "contract_address")
TtBlock == Unwrap(TtReceipt.block_number)
TtHash == TtReceipt.transaction_hash

\* what one supplied log translates to
TtTranslation(log) == ibc_event_from_ibc_handler_event(TtBlock, TtHash, log)

\* a supplied log fails when no event of the ABI matches it or when its
\* translation is an error; it translates when an event comes out of it
TtFails(log) == log.variant = "undecodable" \/ TtTranslation(log).kind = "Err"
TtTranslates(log) == ~TtFails(log) /\ IsSome(TtTranslation(log).event)

\* the events of the supplied logs that translate, in log order
FetchedAsStated ==
    LET kept == SelectSeq(TtSupplied, TtTranslates)
    IN  IF \E i \in 1..Len(TtSupplied) : TtFails(TtSupplied[i])
        THEN tt_events.kind \in {"Err", "panic"} /\ tt_events.events = <<>>
        ELSE /\ tt_events.kind = "Ok"
             /\ Len(tt_events.events) = Len(kept)
             /\ \A i \in 1..Len(kept) :
                   /\ tt_events.events[i] = Unwrap(TtTranslation(kept[i]).event)
                   /\ tt_events.events[i].height = TtBlock
                   /\ tt_events.events[i].tx_hash = TtHash
                   /\ tt_events.events[i].event = kept[i].variant
                   /\ tt_events.events[i].packet = kept[i].packet

\* the packet of the first SendPacket among the supplied logs, or an error
TransferAsStated ==
    LET sends == {i \in 1..Len(TtSupplied) : TtSupplied[i].variant = "SendPacketFilter"}
    IN  IF tt_events.kind # "Ok" THEN tt_result.kind = tt_events.kind
        ELSE IF sends = {}
        THEN tt_result = TransferOut("Err", "failed to find send packet event", None)
        ELSE tt_result = TransferOut("Ok", "", Some(TtSupplied[Min(sends)].packet))

\* C30: fetch_all_ibc_events_from_tx_logs returns, in log order, one event
\* for each supplied log that translates to a canonical event, each carrying
\* the supplied block number as height and the supplied transaction hash;
\* logs that translate to no event are skipped and a translation error on
\* any log fails the whole call; ibc_token_transfer then returns the packet
\* of the first SendPacket event among the receipt's logs emitted by the IBC
\* handler address and fails when there is none.
C30_TransferReturnsFirstSentPacket ==
    (tt_pc = "done" /\ FetchCalled(tt_env)) => (FetchedAsStated /\ TransferAsStated)

\* the handler emitted an event without a canonical kind, then the SendPacket
\* of packet 2, then the SendPacket of packet 1: two events, packet 2
C30_Witness ==
    /\ tt_pc = "done"
    /\ FetchCalled(tt_env)
    /\ Len(TtSupplied) = 3
    /\ TtSupplied[1].variant = "OwnershipTransferredFilter"
    /\ TtSupplied[2].variant = "SendPacketFilter" /\ TtSupplied[2].packet.sequence = 2
    /\ TtSupplied[3].variant = "SendPacketFilter" /\ TtSupplied[3].packet.sequence = 1
    /\ TtBlock = 2
    /\ Len(tt_events.events) = 2
    /\ tt_result = TransferOut("Ok", "", Some([BasePacket EXCEPT !.sequence = 2]))

====
